---- MODULE Spec2Model ----
(***************************************************************************)
(* Model of the time-calculation engine of Anime_Taimu                     *)
(* (scripts/time-calculator.js): the pure calculation function with its   *)
(* validation and formatting helpers, and the calculator session created  *)
(* by createTimeCalculator with its change listeners.                     *)
(*                                                                         *)
(* JavaScript values are tagged records.  A number is held in fixed point *)
(* with one decimal digit: [t |-> "number", v |-> k] is the number k/10,  *)
(* so 1.5 is v = 15 and 24 is v = 240.  NaN and Infinity are numbers of   *)
(* their own tags (typeof gives 'number' for both).                       *)
(***************************************************************************)
EXTENDS Integers, Sequences, FiniteSets, TLC

\* ------------------------------------------------------------------ values
Undefined == [t |-> "undefined"]
Null == [t |-> "null"]
NaN == [t |-> "NaN"]
Infinity == [t |-> "Infinity"]
Num(n) == [t |-> "number", v |-> n * 10]
Frac(k) == [t |-> "number", v |-> k]
Str(s) == [t |-> "string", v |-> s]
Bool(b) == [t |-> "boolean", v |-> b]

\* typeof x === 'number'
TypeofNumber(x) == x.t \in {"number", "NaN", "Infinity"}

\* typeof x === 'object' && x (a non-null object)
IsObject(x) == x.t = "object"

\* ToBoolean, as used by ||, ?: and Boolean()
Truthy(x) ==
  CASE x.t = "number" -> x.v # 0
    [] x.t = "string" -> x.v # ""
    [] x.t = "boolean" -> x.v
    [] x.t \in {"Infinity", "object", "function"} -> TRUE
    [] OTHER -> FALSE

\* ToNumber, as applied by the relational operators to a non-number operand
ToNumber(x) ==
  CASE TypeofNumber(x) -> x
    [] x.t = "null" -> Num(0)
    [] x.t = "boolean" -> IF x.v THEN Num(1) ELSE Num(0)
    [] x.t = "string" ->
         IF x.v = "" THEN Num(0) ELSE IF x.v = "5" THEN Num(5) ELSE NaN
    [] OTHER -> NaN

\* x > n, x < n, x <= n for a finite number literal n (given in tenths)
Gt(x, n) ==
  LET y == ToNumber(x) IN
  CASE y.t = "number" -> y.v > n
    [] y.t = "Infinity" -> TRUE
    [] OTHER -> FALSE

Lt(x, n) ==
  LET y == ToNumber(x) IN
  CASE y.t = "number" -> y.v < n
    [] OTHER -> FALSE

Le(x, n) ==
  LET y == ToNumber(x) IN
  CASE y.t = "number" -> y.v <= n
    [] OTHER -> FALSE

\* a * b and a + b on numbers (NaN is absorbing; Infinity * 0 is NaN)
Mul(a, b) ==
  CASE a.t = "NaN" \/ b.t = "NaN" -> NaN
    [] a.t = "Infinity" -> IF b.t = "number" /\ b.v = 0 THEN NaN ELSE Infinity
    [] b.t = "Infinity" -> IF a.t = "number" /\ a.v = 0 THEN NaN ELSE Infinity
    [] OTHER -> Frac((a.v * b.v) \div 10)

Add(a, b) ==
  CASE a.t = "NaN" \/ b.t = "NaN" -> NaN
    [] a.t = "Infinity" \/ b.t = "Infinity" -> Infinity
    [] OTHER -> Frac(a.v + b.v)

\* ------------------------------------------------------------- constants
\* Variant of OPENING_THEME_DURATION: an opening of one minute.
OPENING_THEME_DURATION_oneMinute == Frac(10)

OPENING_THEME_DURATION == Frac(15)
ENDING_THEME_DURATION == Frac(15)
DEFAULT_EPISODE_DURATION == Num(24)

\* --------------------------------------------------- validateCalculationInput
validateCalculationInput(options) ==
  IF ~IsObject(options)
  THEN [isValid |-> FALSE, error |-> Str("Invalid calculation options provided")]
  ELSE
    LET episodes == options.episodes
        episodeDuration == options.episodeDuration
    IN
    IF ~TypeofNumber(episodes) \/ Lt(episodes, 0)
    THEN [isValid |-> FALSE, error |-> Str("Episodes must be a non-negative number")]
    ELSE IF episodes.t = "number" /\ episodes.v = 0
    THEN [isValid |-> FALSE,
          error |-> Str("Cannot calculate time for anime with 0 episodes")]
    ELSE IF /\ episodeDuration.t # "undefined"
            /\ episodeDuration.t # "null"
            /\ (~TypeofNumber(episodeDuration) \/ Le(episodeDuration, 0))
    THEN [isValid |-> FALSE, error |-> Str("Episode duration must be a positive number")]
    ELSE IF Gt(episodes, 10000 * 10)
    THEN [isValid |-> FALSE,
          error |-> Str("Episode count exceeds reasonable limit (10,000 episodes)")]
    ELSE IF Gt(episodeDuration, 1440 * 10)
    THEN [isValid |-> FALSE,
          error |-> Str("Episode duration exceeds reasonable limit (24 hours)")]
    ELSE [isValid |-> TRUE, error |-> Null]

\* ------------------------------------------------------------- formatTime
\* Math.round: the nearest integer, halves up
\* Variant of MathRound that drops the fraction.
MathRound_floor(x) ==
  IF x.t = "number" THEN Frac((x.v \div 10) * 10) ELSE x

MathRound(x) ==
  IF x.t = "number" THEN Frac(((x.v + 5) \div 10) * 10) ELSE x

\* Variant of Minutes without the singular.
Minutes_alwaysPlural(n) == ToString(n) \o " minutes"

Minutes(n) == IF n = 1 THEN "1 minute" ELSE ToString(n) \o " minutes"

Hours(n) == IF n = 1 THEN "1 hour" ELSE ToString(n) \o " hours"

formatTime(totalMinutes) ==
  IF ~TypeofNumber(totalMinutes) \/ Lt(totalMinutes, 0)
  THEN "0 minutes"
  ELSE
    LET roundedMinutes == MathRound(totalMinutes) IN
    IF roundedMinutes.t = "NaN"
    THEN "0 minutes"                 \* every comparison is false, result stays ''
    ELSE IF roundedMinutes.t = "Infinity"
    THEN "Infinity hours"            \* hours = Infinity, minutes = NaN
    ELSE IF roundedMinutes.v < 60 * 10
    THEN Minutes(roundedMinutes.v \div 10)
    ELSE
      LET hours == (roundedMinutes.v \div 10) \div 60
          minutes == (roundedMinutes.v \div 10) % 60
          h == IF hours > 0 THEN Hours(hours) ELSE ""
          m == IF minutes > 0
               THEN (IF h # "" THEN h \o " " ELSE h) \o Minutes(minutes)
               ELSE h
      IN IF m # "" THEN m ELSE "0 minutes"

\* ------------------------------------------------------ calculateWatchTime
NoError == [t |-> "none"]
Error(msg) == [t |-> "Error", message |-> msg]

calculateWatchTime(options) ==
  LET validation == validateCalculationInput(options) IN
  IF ~validation.isValid
  THEN [thrown |-> Error(validation.error), value |-> Undefined]
  ELSE
    LET episodes == options.episodes
        episodeDuration == options.episodeDuration
        includeOpening == options.includeOpening
        includeEnding == options.includeEnding
        finalEpisodeDuration ==
          IF TypeofNumber(episodeDuration) /\ Gt(episodeDuration, 0)
          THEN episodeDuration ELSE DEFAULT_EPISODE_DURATION
        baseMinutes == Mul(episodes, finalEpisodeDuration)
        openingMinutes ==
          IF includeOpening THEN Mul(episodes, OPENING_THEME_DURATION) ELSE Num(0)
        endingMinutes ==
          IF includeEnding THEN Mul(episodes, ENDING_THEME_DURATION) ELSE Num(0)
        totalMinutes == Add(Add(baseMinutes, openingMinutes), endingMinutes)
        breakdown ==
          [episodes |-> episodes,
           episodeDuration |-> finalEpisodeDuration,
           baseTime |-> Str(formatTime(baseMinutes)),
           openingTime |-> IF includeOpening
                           THEN Str(formatTime(openingMinutes)) ELSE Null,
           endingTime |-> IF includeEnding
                          THEN Str(formatTime(endingMinutes)) ELSE Null,
           includeOpening |-> includeOpening,
           includeEnding |-> includeEnding]
    IN [thrown |-> NoError,
        value |-> [t |-> "object",
                   baseMinutes |-> baseMinutes,
                   openingMinutes |-> openingMinutes,
                   endingMinutes |-> endingMinutes,
                   totalMinutes |-> totalMinutes,
                   formattedTime |-> formatTime(totalMinutes),
                   breakdown |-> breakdown]]

\* ------------------------------------------------------------ listeners
\* The callbacks a caller may register.  "boom" throws on every invocation
\* (after having been entered); "f" returns normally.
Functions == {"f", "boom"}

Throws(listener) == listener = "boom"

Fn(id) == [t |-> "function", id |-> id]

MaxListeners == 2

\* listener(result, options, error): the invocation as the callback sees it,
\* and the exception it raises
invoke(listener, result, options, error) ==
  [call |-> [listener |-> listener, result |-> result,
             options |-> options, error |-> error],
   thrown |-> IF Throws(listener) THEN Error(Str("Listener error")) ELSE NoError]

\* Variant of tryListener without the try/catch around the callback.
tryListener_uncaught(listener, result, options, error) ==
  invoke(listener, result, options, error)

\* try { listener(...) } catch (error) { console.error(...) }
tryListener(listener, result, options, error) ==
  [call |-> invoke(listener, result, options, error).call, thrown |-> NoError]

\* Variant of forEachListener that walks the list from its end.
forEachListener_reversed(listeners, result, options, error) ==
  [calls |-> [i \in 1..Len(listeners) |->
                invoke(listeners[Len(listeners) + 1 - i], result, options, error).call],
   thrown |-> NoError]

\* changeListeners.forEach(listener => { try ... catch ... }): stops at the
\* first exception that leaves the callback body
forEachListener(listeners, result, options, error) ==
  LET RECURSIVE loop(_, _)
      loop(i, calls) ==
        IF i > Len(listeners)
        THEN [calls |-> calls, thrown |-> NoError]
        ELSE LET r == tryListener(listeners[i], result, options, error) IN
             IF r.thrown # NoError
             THEN [calls |-> Append(calls, r.call), thrown |-> r.thrown]
             ELSE loop(i + 1, Append(calls, r.call))
  IN loop(1, <<>>)

\* ------------------------------------------------------ createTimeCalculator
Baseline ==
  [t |-> "object",
   episodes |-> Num(0),
   episodeDuration |-> DEFAULT_EPISODE_DURATION,
   includeOpening |-> FALSE,
   includeEnding |-> FALSE]

\* Variant of createTimeCalculator that computes the first result itself.
createTimeCalculator_computing(initialOptions) ==
  LET options == [k \in DOMAIN Baseline |->
                    IF k \in DOMAIN initialOptions THEN initialOptions[k]
                    ELSE Baseline[k]]
  IN [options |-> options,
      result |-> IF Gt(options.episodes, 0)
                 THEN calculateWatchTime(options).value ELSE Null,
      listeners |-> <<>>]

\* the session: currentOptions, currentResult, changeListeners
createTimeCalculator(initialOptions) ==
  [options |-> [k \in DOMAIN Baseline |->
                  IF k \in DOMAIN initialOptions THEN initialOptions[k]
                  ELSE Baseline[k]],
   result |-> Null,
   listeners |-> <<>>]

\* What an operation leaves behind: the session, the listener invocations it
\* made (in order), the option sets calculateWatchTime was invoked with, and
\* the exception that reached the operation's caller (NoError: it returned).
Outcome(S, calls, invoked, thrown) ==
  [S |-> S, calls |-> calls, invoked |-> invoked, thrown |-> thrown]

\* currentResult = calculateWatchTime(currentOptions): the value assigned or
\* the exception thrown by invocation c, and the options it ran with
Invocation(c, options) ==
  [thrown |-> c.thrown, value |-> c.value, invoked |-> <<options>>]

\* Variant of computeResult without the episodes > 0 test.
computeResult_unguarded(options) ==
  Invocation(calculateWatchTime(options), options)

\* the body of recalculate's try block up to the notification
computeResult(options) ==
  IF Gt(options.episodes, 0)
  THEN Invocation(calculateWatchTime(options), options)
  ELSE [thrown |-> NoError, value |-> Null, invoked |-> <<>>]

\* Variant of catchBlock that keeps the previous result.
catchBlock_keepResult(S, error, calls, invoked) ==
  LET loop == forEachListener(S.listeners, S.result, S.options, error.message) IN
  Outcome(S, calls \o loop.calls, invoked, loop.thrown)

\* Variant of catchBlock that notifies without the error message.
catchBlock_noMessage(S, error, calls, invoked) ==
  LET loop == forEachListener(S.listeners, Null, S.options, Undefined) IN
  Outcome([S EXCEPT !.result = Null], calls \o loop.calls, invoked, loop.thrown)

\* recalculate's catch block
catchBlock(S, error, calls, invoked) ==
  LET loop == forEachListener(S.listeners, Null, S.options, error.message) IN
  Outcome([S EXCEPT !.result = Null], calls \o loop.calls, invoked, loop.thrown)

\* the end of the try block: the round went through, or the exception that
\* left it is handled by the catch block
afterNotify(T, loop, invoked) ==
  IF loop.thrown = NoError
  THEN Outcome(T, loop.calls, invoked, NoError)
  ELSE catchBlock(T, loop.thrown, loop.calls, invoked)

\* the try block after computation c: the result is assigned and the
\* listeners are notified, unless calculateWatchTime threw
afterCompute(S, c) ==
  IF c.thrown = NoError
  THEN afterNotify([S EXCEPT !.result = c.value],
                   forEachListener(S.listeners, c.value, S.options, Undefined),
                   c.invoked)
  ELSE catchBlock(S, c.thrown, <<>>, c.invoked)

recalculate(S) == afterCompute(S, computeResult(S.options))

\* Variant of the recalculate method that goes through reset.
recalculateMethod_reset(S) ==
  [S |-> [S EXCEPT !.options = [t |-> "object", episodes |-> Num(0),
                                episodeDuration |-> DEFAULT_EPISODE_DURATION,
                                includeOpening |-> FALSE,
                                includeEnding |-> FALSE],
                   !.result = Null],
   calls |-> [i \in 1..Len(S.listeners) |->
                [listener |-> S.listeners[i], result |-> Null,
                 options |-> S.options, error |-> Undefined]],
   invoked |-> <<>>,
   thrown |-> NoError]

\* the recalculate() method of the returned object: recalculate()
recalculateMethod(S) == recalculate(S)

\* a || b
\* Variant of Or that replaces only undefined and null (the ?? operator).
Or_nullish(a, b) == IF a.t \in {"undefined", "null"} THEN b ELSE a

Or(a, b) == IF Truthy(a) THEN a ELSE b

\* Variant of updateAnime that keeps the stored values when the new ones are
\* rejected by validateCalculationInput.
updateAnime_validating(S, animeData) ==
  IF Truthy(animeData) /\ IsObject(animeData)
  THEN LET T == [S EXCEPT
                   !.options.episodes = Or(animeData.episodes, Num(0)),
                   !.options.episodeDuration =
                      Or(animeData.duration, DEFAULT_EPISODE_DURATION)]
       IN IF validateCalculationInput(T.options).isValid \/ T.options.episodes = Num(0)
          THEN recalculate(T) ELSE recalculate(S)
  ELSE Outcome(S, <<>>, <<>>, NoError)

\* Variant of updateAnime without the typeof animeData === 'object' test: a
\* truthy primitive has no episodes and no duration property.
updateAnime_noTypeCheck(S, animeData) ==
  IF Truthy(animeData)
  THEN LET data == IF IsObject(animeData) THEN animeData
                   ELSE [t |-> "object", episodes |-> Undefined, duration |-> Undefined]
       IN recalculate([S EXCEPT
            !.options.episodes = Or(data.episodes, Num(0)),
            !.options.episodeDuration = Or(data.duration, DEFAULT_EPISODE_DURATION)])
  ELSE Outcome(S, <<>>, <<>>, NoError)

updateAnime(S, animeData) ==
  IF Truthy(animeData) /\ IsObject(animeData)
  THEN recalculate([S EXCEPT
         !.options.episodes = Or(animeData.episodes, Num(0)),
         !.options.episodeDuration = Or(animeData.duration, DEFAULT_EPISODE_DURATION)])
  ELSE Outcome(S, <<>>, <<>>, NoError)

\* Variant of setIncludeOpening that recalculates before it stores the flag.
setIncludeOpening_stale(S, include) ==
  [recalculate(S) EXCEPT !.S.options.includeOpening = Truthy(include)]

setIncludeOpening(S, include) ==
  recalculate([S EXCEPT !.options.includeOpening = Truthy(include)])

\* Variant of setIncludeEnding that sets both flags.
setIncludeEnding_both(S, include) ==
  recalculate([S EXCEPT !.options.includeEnding = Truthy(include),
                        !.options.includeOpening = Truthy(include)])

setIncludeEnding(S, include) ==
  recalculate([S EXCEPT !.options.includeEnding = Truthy(include)])

\* Variant of setThemeInclusion that calls the two setters in turn.
setThemeInclusion_twoRounds(S, includeOpening, includeEnding) ==
  LET o1 == setIncludeOpening(S, includeOpening)
      o2 == setIncludeEnding(o1.S, includeEnding)
  IN Outcome(o2.S, o1.calls \o o2.calls, o1.invoked \o o2.invoked, o2.thrown)

setThemeInclusion(S, includeOpening, includeEnding) ==
  recalculate([S EXCEPT !.options.includeOpening = Truthy(includeOpening),
                        !.options.includeEnding = Truthy(includeEnding)])

getCurrentResult(S) == S.result

\* A reference to an options record as a caller holds it: live tells whether
\* it is the very record the session keeps in currentOptions (a write through
\* it is a write to the session's options) or an object of its own.
Reference(live, value) == [t |-> "reference", live |-> live, value |-> value]

\* Variant of getCurrentOptions that hands out the session's own record.
getCurrentOptions_live(S) == Reference(TRUE, S.options)

\* return { ...currentOptions }: a new object with the fields copied
getCurrentOptions(S) == Reference(FALSE, S.options)

\* record[key] = value, by a caller holding the reference
writeField(S, record, key, value) ==
  [S |-> IF record.live THEN [S EXCEPT !.options[key] = value] ELSE S,
   record |-> [record EXCEPT !.value[key] = value]]

\* Variant of optionsArgument that hands a copy to the callback.
optionsArgument_copy(S) == Reference(FALSE, S.options)

\* listener(currentResult, currentOptions): the second argument is the
\* session's own record
optionsArgument(S) == Reference(TRUE, S.options)

\* What the callback "k", which keeps the first options record it is handed,
\* holds after an operation took session S to outcome o: the argument of its
\* first invocation; that record for as long as it is the session's; and the
\* record as it was left behind once reset has assigned a new one.
kept(h, S, o, op) ==
  IF h = Undefined
  THEN IF \E i \in 1..Len(o.calls) : o.calls[i].listener = "k"
       THEN optionsArgument(o.S) ELSE h
  ELSE IF ~h.live THEN h
  ELSE IF op.op = "reset" THEN Reference(FALSE, S.options)
  ELSE Reference(TRUE, o.S.options)

\* Variant of addChangeListener that notifies the whole list.
addChangeListener_notifyAll(S, listener) ==
  IF listener.t = "function"
  THEN LET T == [S EXCEPT !.listeners = Append(S.listeners, listener.id)]
           loop == forEachListener(T.listeners, T.result, T.options, Undefined)
       IN Outcome(T, loop.calls, <<>>, loop.thrown)
  ELSE Outcome(S, <<>>, <<>>, NoError)

\* Variant of addChangeListener that takes a callback off the list again when
\* its first invocation throws.
addChangeListener_dropThrowing(S, listener) ==
  IF listener.t = "function"
  THEN Outcome(IF Throws(listener.id) THEN S
               ELSE [S EXCEPT !.listeners = Append(S.listeners, listener.id)],
               <<tryListener(listener.id, S.result, S.options, Undefined).call>>,
               <<>>, NoError)
  ELSE Outcome(S, <<>>, <<>>, NoError)

addChangeListener(S, listener) ==
  IF listener.t = "function"
  THEN LET T == [S EXCEPT !.listeners = Append(S.listeners, listener.id)]
           r == tryListener(listener.id, T.result, T.options, Undefined)
       IN Outcome(T, <<r.call>>, <<>>, r.thrown)
  ELSE Outcome(S, <<>>, <<>>, NoError)

\* Variant of IndexOf that finds the last index holding the listener.
IndexOf_last(listeners, id) ==
  IF \E i \in 1..Len(listeners) : listeners[i] = id
  THEN CHOOSE i \in 1..Len(listeners) :
         /\ listeners[i] = id
         /\ \A j \in (i + 1)..Len(listeners) : listeners[j] # id
  ELSE 0

\* changeListeners.indexOf(listener): the first index holding it, 0 if none
IndexOf(listeners, id) ==
  IF \E i \in 1..Len(listeners) : listeners[i] = id
  THEN CHOOSE i \in 1..Len(listeners) :
         /\ listeners[i] = id
         /\ \A j \in 1..(i - 1) : listeners[j] # id
  ELSE 0

\* Variant of removeChangeListener that takes every registration of the
\* callback off the list.
removeChangeListener_all(S, listener) ==
  Outcome([S EXCEPT !.listeners =
             SelectSeq(S.listeners,
                       LAMBDA id : listener.t # "function" \/ id # listener.id)],
          <<>>, <<>>, NoError)

removeChangeListener(S, listener) ==
  LET index == IF listener.t = "function" THEN IndexOf(S.listeners, listener.id) ELSE 0 IN
  IF index > 0
  THEN Outcome([S EXCEPT !.listeners =
                  SubSeq(S.listeners, 1, index - 1)
                  \o SubSeq(S.listeners, index + 1, Len(S.listeners))],
               <<>>, <<>>, NoError)
  ELSE Outcome(S, <<>>, <<>>, NoError)

\* Variant of reset that also empties the listener list after notifying.
reset_dropListeners(S) ==
  LET T == [S EXCEPT !.options = Baseline, !.result = Null]
      loop == forEachListener(T.listeners, Null, T.options, Undefined)
  IN Outcome([T EXCEPT !.listeners = <<>>], loop.calls, <<>>, loop.thrown)

reset(S) ==
  LET T == [S EXCEPT !.options = Baseline, !.result = Null]
      loop == forEachListener(T.listeners, Null, T.options, Undefined)
  IN Outcome(T, loop.calls, <<>>, loop.thrown)

\* ------------------------------- listeners that call back into the session
\* Callbacks that call a method of the session from inside a notification.
\* Handed a result, "u" unregisters itself, "v" unregisters "f" and "w"
\* registers "g"; handed null, "l" loads a series with updateAnime.  "f" and
\* "g" only take the notification.
LiveFunctions == {"f", "g", "u", "v", "w"}

\* one invocation of a callback: who was called with what, by the iteration
\* at which index or by addChangeListener (index 0), and the listener list
\* before and after the callback ran
LiveCall(S, T, id, result, error, index) ==
  [listener |-> id, result |-> result, options |-> S.options, error |-> error,
   by |-> IF index = 0 THEN "addChangeListener" ELSE "forEach",
   index |-> index, before |-> S.listeners, after |-> T.listeners]

RECURSIVE roundLive(_, _)
\* the body of a callback: the session it leaves behind and the listener
\* calls made by the method it called
afterListener(S, id, result) ==
  CASE id = "l" /\ result = Null ->
         roundLive([S EXCEPT !.options.episodes = Num(12),
                             !.options.episodeDuration = Num(24)],
                   computeResult([S.options EXCEPT !.episodes = Num(12),
                                                   !.episodeDuration = Num(24)]))
    [] id = "u" /\ result # Null ->
         [S |-> removeChangeListener(S, Fn("u")).S, calls |-> <<>>]
    [] id = "v" /\ result # Null ->
         [S |-> removeChangeListener(S, Fn("f")).S, calls |-> <<>>]
    [] id = "w" /\ result # Null ->
         [S |-> [S EXCEPT !.listeners = Append(@, "g")],
          calls |-> <<LiveCall([S EXCEPT !.listeners = Append(@, "g")],
                               [S EXCEPT !.listeners = Append(@, "g")],
                               "g", S.result, Undefined, 0)>>]
    [] OTHER -> [S |-> S, calls |-> <<>>]

\* listener(result, currentOptions, error): the call, then what the callback
\* did
callLive(S, id, result, error, index) ==
  [S |-> afterListener(S, id, result).S,
   calls |-> <<LiveCall(S, afterListener(S, id, result).S, id, result, error, index)>>
             \o afterListener(S, id, result).calls]

RECURSIVE forEach_snapshot(_, _, _, _, _, _, _)
\* Variant of forEach that iterates over a copy of the list.
forEach_snapshot(S, list, k, len, current, error, calls) ==
  IF k > len THEN [S |-> S, calls |-> calls]
  ELSE forEach_snapshot(
         callLive(S, list[k], IF current THEN S.result ELSE Null, error, k).S,
         list, k + 1, len, current, error,
         calls \o callLive(S, list[k], IF current THEN S.result ELSE Null, error, k).calls)

RECURSIVE forEach(_, _, _, _, _, _, _)
\* changeListeners.forEach: the indices below the length the list had when
\* the iteration started, each looked up in the list as it is by then; an
\* index the list no longer has is passed over.  The callback is handed
\* currentResult as it is at the time of the call (current), or the literal
\* null of the catch block and of reset.
forEach(S, list, k, len, current, error, calls) ==
  IF k > len THEN [S |-> S, calls |-> calls]
  ELSE IF k > Len(S.listeners)
  THEN forEach(S, list, k + 1, len, current, error, calls)
  ELSE forEach(
         callLive(S, S.listeners[k], IF current THEN S.result ELSE Null, error, k).S,
         list, k + 1, len, current, error,
         calls \o callLive(S, S.listeners[k], IF current THEN S.result ELSE Null,
                           error, k).calls)

\* the round of recalculate: the new result, then the iteration
roundLive(S, c) ==
  IF c.thrown = NoError
  THEN forEach([S EXCEPT !.result = c.value], S.listeners, 1, Len(S.listeners),
               TRUE, Undefined, <<>>)
  ELSE forEach([S EXCEPT !.result = Null], S.listeners, 1, Len(S.listeners),
               FALSE, c.thrown.message, <<>>)

\* recalculate; invoked is the invocation made by the outermost call
recalculateLive(S) ==
  Outcome(roundLive(S, computeResult(S.options)).S,
          roundLive(S, computeResult(S.options)).calls,
          computeResult(S.options).invoked, NoError)

\* ------------------------------------------------- canCalculateTime
\* animeData.episodes: undefined on a value that has no such property
EpisodesOf(animeData) ==
  IF IsObject(animeData) THEN animeData.episodes ELSE Undefined

\* Variant of canCalculateTime without the typeof test on episodes.
canCalculateTime_untyped(animeData) ==
  IF ~Truthy(animeData) \/ ~IsObject(animeData)
  THEN FALSE
  ELSE Gt(animeData.episodes, 0)

\* Variant of canCalculateTime that applies the limit of 10,000 episodes.
canCalculateTime_limited(animeData) ==
  IF ~Truthy(animeData) \/ ~IsObject(animeData)
  THEN FALSE
  ELSE /\ TypeofNumber(animeData.episodes)
       /\ Gt(animeData.episodes, 0)
       /\ Le(animeData.episodes, 10000 * 10)

\* the predicate of the time calculation module
canCalculateTime(animeData) ==
  IF ~Truthy(animeData) \/ ~IsObject(animeData)
  THEN FALSE
  ELSE TypeofNumber(animeData.episodes) /\ Gt(animeData.episodes, 0)

\* the predicate of the API module
apiCanCalculateTime(anime) ==
  IF ~Truthy(anime)
  THEN FALSE
  ELSE EpisodesOf(anime) # Null /\ Gt(EpisodesOf(anime), 0)

\* -------------------------------------------------------- anime-api.js
\* a string as the sequence of its characters
Text(chars) == [t |-> "text", chars |-> chars]

RECURSIVE trimStart(_)
trimStart(chars) ==
  IF chars # <<>> /\ Head(chars) = " " THEN trimStart(Tail(chars)) ELSE chars

RECURSIVE trimEnd(_)
trimEnd(chars) ==
  IF chars # <<>> /\ chars[Len(chars)] = " "
  THEN trimEnd(SubSeq(chars, 1, Len(chars) - 1)) ELSE chars

\* String.prototype.trim
trim(s) == Text(trimEnd(trimStart(s.chars)))

RECURSIVE Join(_)
Join(chars) == IF chars = <<>> THEN "" ELSE Head(chars) \o Join(Tail(chars))

\* let searchTimeout = null: no timer handle
NoTimer == 0

\* a promise that is neither resolved nor rejected
Unsettled == [t |-> "pending"]

\* { data, error }
ApiResponse(data, error) == [t |-> "object", data |-> data, error |-> error]

\* the promise searchAnime returns: the term it was called with (trimmed once
\* it is accepted), its value, and the search term of the performSearch call
\* that awaits it, null when nothing does
Promise(term, value) == [term |-> term, value |-> value, waiter |-> Null]

\* the module after import: searchTimeout, the timers that are scheduled, the
\* requests that are under way, the promises returned so far and the calls a
\* request was issued for
Imported ==
  [searchTimeout |-> NoTimer, timers |-> {}, inflight |-> {},
   promises |-> <<>>, requests |-> <<>>]

clearTimeout(A, handle) == [A EXCEPT !.timers = @ \ {handle}]

\* if (searchTimeout) clearTimeout(searchTimeout)
clearExisting(A) ==
  IF A.searchTimeout # NoTimer THEN clearTimeout(A, A.searchTimeout) ELSE A

\* !searchTerm || typeof searchTerm !== 'string' || trim().length === 0
IsBlank(searchTerm) ==
  \/ searchTerm.t # "text"
  \/ searchTerm.chars = <<>>
  \/ trim(searchTerm).chars = <<>>

\* the synchronous part of the promise executor, after the timer was cleared
executor(B, searchTerm) ==
  IF IsBlank(searchTerm)
  THEN [B EXCEPT !.promises =
          Append(@, Promise(searchTerm,
                   ApiResponse(Null, Str("Please enter an anime title to search."))))]
  ELSE IF Len(trim(searchTerm).chars) < 2
  THEN [B EXCEPT !.promises =
          Append(@, Promise(searchTerm,
                   ApiResponse(Null, Str("Please enter at least 2 characters to search."))))]
  ELSE [B EXCEPT !.promises = Append(@, Promise(trim(searchTerm), Unsettled)),
                 !.timers = @ \cup {Len(B.promises) + 1},
                 !.searchTimeout = Len(B.promises) + 1]

\* Variant of searchAnime that clears the timer only for a term it accepts.
searchAnime_clearWhenValid(A, searchTerm) ==
  IF IsBlank(searchTerm) \/ Len(trim(searchTerm).chars) < 2
  THEN executor(A, searchTerm)
  ELSE executor(clearExisting(A), searchTerm)

searchAnime(A, searchTerm) == executor(clearExisting(A), searchTerm)

cancelPendingSearch(A) ==
  IF A.searchTimeout # NoTimer
  THEN [clearTimeout(A, A.searchTimeout) EXCEPT !.searchTimeout = NoTimer]
  ELSE A

makeGraphQLRequest(outcome) ==
  CASE outcome = "media" ->
         [thrown |-> NoError,
          value |-> [t |-> "object",
                     Media |-> [t |-> "object", id |-> Num(1),
                                episodes |-> Num(12), duration |-> Null]]]
    [] outcome = "noMedia" ->
         [thrown |-> NoError, value |-> [t |-> "object", Media |-> Null]]
    [] outcome = "429" ->
         [thrown |-> [t |-> "Error", message |->
                        Str("Rate limit exceeded. Please try again in a moment.")],
          value |-> Undefined]
    [] outcome = "TypeError" ->
         [thrown |-> [t |-> "TypeError", message |-> Str("Failed to fetch")],
          value |-> Undefined]

validateAndNormalizeAnimeData(data) ==
  IF ~Truthy(data) \/ ~Truthy(data.Media)
  THEN Null
  ELSE [t |-> "object",
        id |-> data.Media.id,
        episodes |-> Or(data.Media.episodes, Null),
        duration |-> Or(data.Media.duration, Null)]

\* the value the timer callback resolves the promise with
resolution(request, trimmedSearch) ==
  IF request.thrown # NoError
  THEN ApiResponse(Null,
         IF request.thrown.message
              = Str("Rate limit exceeded. Please try again in a moment.")
         THEN Str("Too many requests. Please wait a moment and try again.")
         ELSE IF request.thrown.t = "TypeError"
         THEN Str("Network connection error. Please check your internet connection and try again.")
         ELSE Str("An error occurred while searching. Please try again."))
  ELSE IF validateAndNormalizeAnimeData(request.value) = Null
  THEN ApiResponse(Null, Str("No anime found for \"" \o Join(trimmedSearch.chars)
                             \o "\". Try a different title or check your spelling."))
  ELSE ApiResponse(validateAndNormalizeAnimeData(request.value), Null)

\* the request of call id came back: the rest of the timer callback
settle(A, id, outcome) ==
  [A EXCEPT !.promises[id].value =
              resolution(makeGraphQLRequest(outcome), A.promises[id].term),
            !.inflight = @ \ {id}]

\* ------------------------------------------------ AnimeSearch.class.js
\* the component after construction, no search parameter in the URL
Constructed ==
  [inputValue |-> Text(<<>>), currentSearchTerm |-> Text(<<>>),
   isLoading |-> FALSE, searchError |-> Null, events |-> <<>>]

hideLoading(U) == [U EXCEPT !.isLoading = FALSE]

hideError(U) == [U EXCEPT !.searchError = Null]

hideStates(U) == hideError(hideLoading(U))

showLoading(U) == hideError([U EXCEPT !.isLoading = TRUE])

showError(U, message) == [hideLoading(U) EXCEPT !.searchError = message]

\* the animeSearchResult event
dispatchSearchEvent(U, animeData, error) ==
  [U EXCEPT !.events =
     Append(@, [data |-> animeData, error |-> error,
                searchTerm |-> U.currentSearchTerm])]

\* performSearch after the awaited promise id has resolved
afterAwait_unchecked(W, id) ==
  LET result == W.api.promises[id].value IN
  IF result.error # Null
  THEN [W EXCEPT !.ui = dispatchSearchEvent(showError(hideLoading(W.ui), result.error),
                                            Null, result.error)]
  ELSE IF result.data # Null
  THEN [W EXCEPT !.ui = dispatchSearchEvent(hideStates(hideLoading(W.ui)),
                                            result.data, Null)]
  ELSE [W EXCEPT !.ui = dispatchSearchEvent(
                          showError(hideLoading(W.ui),
                            Str("No anime found. Please try a different search term.")),
                          Null, Str("No results found"))]

afterAwait(W, id) ==
  IF W.ui.currentSearchTerm # trim(W.api.promises[id].waiter)
  THEN W
  ELSE afterAwait_unchecked(W, id)

\* const result = await searchAnime(...): a promise that is resolved already
\* resumes the function before anything else runs
await(W, searchTerm) ==
  IF W.api.promises[Len(W.api.promises)].value # Unsettled
  THEN afterAwait([W EXCEPT !.api.promises[Len(W.api.promises)].waiter = searchTerm],
                  Len(W.api.promises))
  ELSE [W EXCEPT !.api.promises[Len(W.api.promises)].waiter = searchTerm]

\* performSearch from the trimmed term on
search(W, U, searchTerm) ==
  IF U.currentSearchTerm.chars = <<>>
  THEN [W EXCEPT !.ui = dispatchSearchEvent(hideStates(U), Null, Null)]
  ELSE await([api |-> searchAnime(W.api, U.currentSearchTerm),
              ui |-> showLoading(U)], searchTerm)

performSearch(W, searchTerm) ==
  search(W, [W.ui EXCEPT !.currentSearchTerm = trim(searchTerm)], searchTerm)

handleInput(W, value) ==
  performSearch([W EXCEPT !.ui.inputValue = value], value)

handleClear(W) ==
  [api |-> cancelPendingSearch(W.api),
   ui |-> dispatchSearchEvent(
            hideStates([W.ui EXCEPT !.inputValue = Text(<<>>)]), Null, Null)]

handleKeydown(W, key) ==
  IF key = "Enter" THEN performSearch(W, W.ui.inputValue)
  ELSE IF key = "Escape" THEN handleClear(W)
  ELSE W

handleRetry(W) ==
  IF W.ui.currentSearchTerm.chars # <<>>
  THEN performSearch(W, W.ui.currentSearchTerm)
  ELSE W

\* ------------------------------------------------------------------ inputs
AnimeDataInputs ==
  {Undefined, Null, Num(5), Str("abc")}
  \cup {[t |-> "object", episodes |-> e, duration |-> d] :
          e \in {Undefined, Num(0), Num(-1), Num(1), Num(10001), Str("5")},
          d \in {Undefined, Num(0), Num(22), Num(-1), Num(1441)}}

FlagInputs == {Bool(TRUE), Bool(FALSE), Str("no")}

\* the callbacks, and two values that are not functions
ListenerInputs == {Fn(id) : id \in Functions} \cup {Null, Str("f")}

\* updates of the workflow of a real series (26 episodes of 24 minutes)
WorkflowInputs ==
  {[t |-> "object", episodes |-> Num(26), duration |-> Num(24)],
   [t |-> "object", episodes |-> Num(1), duration |-> Undefined]}

\* updates with absent and falsy fields
DefaultInputs ==
  {[t |-> "object", episodes |-> e, duration |-> d] :
     e \in {Undefined, Null, Num(0), NaN, Str(""), Num(12), Num(-1)},
     d \in {Undefined, Null, Num(0), NaN, Num(22)}}

\* updates made between two reads of the options
SnapshotInputs ==
  {[t |-> "object", episodes |-> Num(12), duration |-> Num(22)],
   [t |-> "object", episodes |-> Num(10001), duration |-> Undefined]}

\* the writes a caller makes to a record it got from getCurrentOptions
WriteInputs ==
  {<<"episodes", Num(1)>>, <<"episodeDuration", Num(-1)>>, <<"includeEnding", TRUE>>}

\* arguments of direct calls of calculateWatchTime
CalculationInputs ==
  {Undefined, Null, Num(5), Str("abc")}
  \cup {[t |-> "object", episodes |-> e, episodeDuration |-> d,
          includeOpening |-> o, includeEnding |-> n] :
          e \in {Undefined, Str("5"), NaN, Infinity, Num(-1), Num(0), Num(1),
                 Num(3), Num(12), Num(10000), Num(10001)},
          d \in {Undefined, Null, Str("24"), NaN, Infinity, Num(-1), Num(0),
                 Frac(235), Num(24), Num(1440), Num(1441)},
          o \in BOOLEAN, n \in BOOLEAN}

MaxTenths == 1300

\* arguments of direct calls of formatTime: the numbers from -2.0 to
\* MaxTenths / 10 in steps of 0.1, some large ones, and the non-numbers
FormatInputs ==
  {Frac(k) : k \in -20..MaxTenths}
  \cup {Num(1440), Num(1500), Num(3600), Frac(36005)}
  \cup {Undefined, Null, Str("invalid"), Bool(TRUE), NaN, Infinity}

\* arguments of searchAnime
SearchTermInputs ==
  {Undefined, Text(<<>>), Text(<<" ">>), Text(<<"a">>), Text(<<" ", "a", " ">>),
   Text(<<"a", "b">>), Text(<<" ", "a", "b", " ">>), Text(<<"c", "d">>)}

\* what the user may type into the search box
InputValues ==
  {Text(<<>>), Text(<<"a">>), Text(<<" ", "a", "b", " ">>), Text(<<"c", "d">>)}

MaxLive == 3

MaxCalls == 3

InitialOptionsInputs ==
  {[k \in {} |-> Undefined],
   [episodes |-> Num(12), episodeDuration |-> Num(30), includeOpening |-> TRUE]}

\* ------------------------------------------------------------------- state
VARIABLES currentOptions, currentResult, changeListeners,
          calls, invoked, thrown, lastOp, returned

\* anime-api.js
VARIABLES searchTimeout, timers, inflight, promises, requests

\* the search component, the events its last step dispatched, and the timer
\* or response that ran last
VARIABLES inputValue, currentSearchTerm, isLoading, searchError, events, task

\* the options record the callback "k" keeps
VARIABLE held

vars == <<currentOptions, currentResult, changeListeners,
          calls, invoked, thrown, lastOp, returned,
          searchTimeout, timers, inflight, promises, requests,
          inputValue, currentSearchTerm, isLoading, searchError, events, task,
          held>>

NoTask == [op |-> "none", args |-> <<>>]

\* no search was made
Idle ==
  /\ searchTimeout = Imported.searchTimeout
  /\ timers = Imported.timers
  /\ inflight = Imported.inflight
  /\ promises = Imported.promises
  /\ requests = Imported.requests
  /\ inputValue = Constructed.inputValue
  /\ currentSearchTerm = Constructed.currentSearchTerm
  /\ isLoading = Constructed.isLoading
  /\ searchError = Constructed.searchError
  /\ events = Constructed.events
  /\ task = NoTask
  /\ held = Undefined

Session ==
  [options |-> currentOptions, result |-> currentResult,
   listeners |-> changeListeners]

Op(name, args) == [op |-> name, args |-> args]

\* the operation ran to its end and left outcome o behind
Apply(o, op) ==
  /\ currentOptions' = o.S.options
  /\ currentResult' = o.S.result
  /\ changeListeners' = o.S.listeners
  /\ calls' = o.calls
  /\ invoked' = o.invoked
  /\ thrown' = o.thrown
  /\ lastOp' = op
  /\ returned' = Undefined
  /\ held' = kept(held, Session, o, op)
  /\ UNCHANGED <<searchTimeout, timers, inflight, promises, requests>>
  /\ UNCHANGED <<inputValue, currentSearchTerm, isLoading, searchError, events, task>>

\* a call that leaves the session alone returned value c.value or threw
\* c.thrown
Direct(c, op) ==
  /\ returned' = c.value
  /\ thrown' = c.thrown
  /\ lastOp' = op
  /\ calls' = <<>>
  /\ invoked' = <<>>
  /\ UNCHANGED <<currentOptions, currentResult, changeListeners, held>>
  /\ UNCHANGED <<searchTimeout, timers, inflight, promises, requests>>
  /\ UNCHANGED <<inputValue, currentSearchTerm, isLoading, searchError, events, task>>

\* a caller wrote to the record it holds
Written(w, op) ==
  /\ currentOptions' = w.S.options
  /\ returned' = w.record
  /\ lastOp' = op
  /\ calls' = <<>>
  /\ invoked' = <<>>
  /\ thrown' = NoError
  /\ UNCHANGED <<currentResult, changeListeners, held>>
  /\ UNCHANGED <<searchTimeout, timers, inflight, promises, requests>>
  /\ UNCHANGED <<inputValue, currentSearchTerm, isLoading, searchError, events, task>>

InitFrom(inputs) ==
  \E initialOptions \in inputs :
    LET S == createTimeCalculator(initialOptions) IN
    /\ currentOptions = S.options
    /\ currentResult = S.result
    /\ changeListeners = S.listeners
    /\ calls = <<>>
    /\ invoked = <<>>
    /\ thrown = NoError
    /\ lastOp = Op("createTimeCalculator", <<initialOptions>>)
    /\ returned = Undefined
    /\ Idle

Init == InitFrom(InitialOptionsInputs)

UpdateAnimeFrom(inputs) ==
  \E animeData \in inputs :
    Apply(updateAnime(Session, animeData), Op("updateAnime", <<animeData>>))

UpdateAnime == UpdateAnimeFrom(AnimeDataInputs)

SetIncludeOpening ==
  \E include \in FlagInputs :
    Apply(setIncludeOpening(Session, include), Op("setIncludeOpening", <<include>>))

SetIncludeEnding ==
  \E include \in FlagInputs :
    Apply(setIncludeEnding(Session, include), Op("setIncludeEnding", <<include>>))

SetThemeInclusion ==
  \E includeOpening \in FlagInputs, includeEnding \in FlagInputs :
    Apply(setThemeInclusion(Session, includeOpening, includeEnding),
          Op("setThemeInclusion", <<includeOpening, includeEnding>>))

Recalculate ==
  Apply(recalculateMethod(Session), Op("recalculate", <<>>))

AddChangeListenerUpTo(max) ==
  \E listener \in ListenerInputs :
    /\ Len(changeListeners) < max
    /\ Apply(addChangeListener(Session, listener),
             Op("addChangeListener", <<listener>>))

AddChangeListener == AddChangeListenerUpTo(MaxListeners)

RemoveChangeListener ==
  \E listener \in ListenerInputs :
    Apply(removeChangeListener(Session, listener),
          Op("removeChangeListener", <<listener>>))

Reset ==
  Apply(reset(Session), Op("reset", <<>>))

Next ==
  \/ UpdateAnime
  \/ SetIncludeOpening
  \/ SetIncludeEnding
  \/ SetThemeInclusion
  \/ Recalculate
  \/ AddChangeListener
  \/ RemoveChangeListener
  \/ Reset

Spec == Init /\ [][Next]_vars

\* ------------------------------------------------- the read accessors
GetCurrentResult ==
  Direct([value |-> getCurrentResult(Session), thrown |-> NoError],
         Op("getCurrentResult", <<>>))

GetCurrentOptions ==
  Direct([value |-> getCurrentOptions(Session), thrown |-> NoError],
         Op("getCurrentOptions", <<>>))

WriteReturned ==
  \E w \in WriteInputs :
    /\ returned.t = "reference"
    /\ Written(writeField(Session, returned, w[1], w[2]), Op("write", w))

NextAccessors ==
  \/ UpdateAnimeFrom(SnapshotInputs)
  \/ SetIncludeOpening
  \/ Recalculate
  \/ AddChangeListener
  \/ GetCurrentResult
  \/ GetCurrentOptions
  \/ WriteReturned

SpecAccessors == Init /\ [][NextAccessors]_vars

\* -------------------------------- a listener that keeps its options
AddObserver ==
  /\ Len(changeListeners) < MaxListeners
  /\ Apply(addChangeListener(Session, Fn("k")),
           Op("addChangeListener", <<Fn("k")>>))

\* the callback writes a field of the record it keeps: options[key] = value
ObserverWrites ==
  \E w \in WriteInputs :
    /\ held # Undefined
    /\ currentOptions' = writeField(Session, held, w[1], w[2]).S.options
    /\ held' = writeField(Session, held, w[1], w[2]).record
    /\ lastOp' = Op("observerWrite", w)
    /\ returned' = Undefined
    /\ calls' = <<>>
    /\ invoked' = <<>>
    /\ thrown' = NoError
    /\ UNCHANGED <<currentResult, changeListeners>>
    /\ UNCHANGED <<searchTimeout, timers, inflight, promises, requests>>
    /\ UNCHANGED <<inputValue, currentSearchTerm, isLoading, searchError, events, task>>

NextObserver ==
  \/ AddObserver
  \/ ObserverWrites
  \/ UpdateAnimeFrom(SnapshotInputs)
  \/ Recalculate
  \/ Reset
  \/ GetCurrentOptions

SpecObserver == Init /\ [][NextObserver]_vars

\* ------------------------------------------- longer listener lists
MaxRegistered == 3

NextListeners ==
  \/ AddChangeListenerUpTo(MaxRegistered)
  \/ RemoveChangeListener
  \/ Recalculate
  \/ Reset

SpecListeners == Init /\ [][NextListeners]_vars

\* ------------------------------------------------- the series workflow
NextWorkflow ==
  \/ UpdateAnimeFrom(WorkflowInputs)
  \/ SetIncludeOpening
  \/ SetIncludeEnding
  \/ SetThemeInclusion
  \/ Recalculate
  \/ AddChangeListener

SpecWorkflow == Init /\ [][NextWorkflow]_vars

\* ------------------------------------- direct calls of the pure functions
\* a direct call of an exported function, before it runs: the function and
\* its argument
PureCalls ==
  {<<"calculateWatchTime", options>> : options \in CalculationInputs}
  \cup {<<"formatTime", totalMinutes>> : totalMinutes \in FormatInputs}

\* a fresh session beside which call is about to be made
InitCall(pending) ==
  \E call \in pending :
    LET S == createTimeCalculator([k \in {} |-> Undefined]) IN
    /\ currentOptions = S.options
    /\ currentResult = S.result
    /\ changeListeners = S.listeners
    /\ calls = <<>>
    /\ invoked = <<>>
    /\ thrown = NoError
    /\ lastOp = Op("call", call)
    /\ returned = Undefined
    /\ Idle

Pending(function) == lastOp.op = "call" /\ lastOp.args[1] = function

CalculateWatchTime ==
  /\ Pending("calculateWatchTime")
  /\ Direct(calculateWatchTime(lastOp.args[2]),
            Op("calculateWatchTime", <<lastOp.args[2]>>))

FormatTime ==
  /\ Pending("formatTime")
  /\ Direct([value |-> Str(formatTime(lastOp.args[2])), thrown |-> NoError],
            Op("formatTime", <<lastOp.args[2]>>))

NextPure ==
  \/ CalculateWatchTime
  \/ FormatTime

SpecPure == InitCall(PureCalls) /\ [][NextPure]_vars

\* ------------------------------------------------- the two predicates
\* metadata records and other values handed to canCalculateTime
RecordInputs ==
  {Undefined, Null, Num(0), Num(5), NaN, Str(""), Str("abc"), Bool(TRUE),
   Bool(FALSE)}
  \cup {[t |-> "object", episodes |-> e, duration |-> d] :
          e \in {Undefined, Null, NaN, Infinity, Num(-1), Num(0), Frac(5),
                 Num(1), Num(12), Str(""), Str("5"), Str("invalid"),
                 Bool(TRUE), Bool(FALSE)},
          d \in {Undefined, Null, Num(24), Num(0)}}

PredicateCalls ==
  {<<f, record>> : f \in {"canCalculateTime", "apiCanCalculateTime"},
                   record \in RecordInputs}

CanCalculateTime ==
  /\ Pending("canCalculateTime")
  /\ Direct([value |-> Bool(canCalculateTime(lastOp.args[2])),
             thrown |-> NoError],
            Op("canCalculateTime", <<lastOp.args[2]>>))

ApiCanCalculateTime ==
  /\ Pending("apiCanCalculateTime")
  /\ Direct([value |-> Bool(apiCanCalculateTime(lastOp.args[2])),
             thrown |-> NoError],
            Op("apiCanCalculateTime", <<lastOp.args[2]>>))

NextPredicates ==
  \/ CanCalculateTime
  \/ ApiCanCalculateTime

SpecPredicates == InitCall(PredicateCalls) /\ [][NextPredicates]_vars

\* ------------------------------------- the predicate and the update
\* records around the limits of validateCalculationInput
GateInputs ==
  {[t |-> "object", episodes |-> e, duration |-> d] :
     e \in {Num(0), Num(1), Frac(15), Num(10000), Num(10001)},
     d \in {Undefined, Null, Num(0), Num(-1), Frac(5), Num(1440), Num(1441)}}

\* canCalculateTime(record) for the record the session was just updated with
CanCalculateTimeOfUpdate ==
  /\ lastOp.op = "updateAnime"
  /\ Direct([value |-> Bool(canCalculateTime(lastOp.args[1])),
             thrown |-> NoError],
            Op("canCalculateTime", lastOp.args))

NextGate ==
  \/ AddChangeListener
  \/ UpdateAnimeFrom(GateInputs)
  \/ CanCalculateTimeOfUpdate

SpecGate == Init /\ [][NextGate]_vars

\* ------------------------------------------------------- construction
\* initial options: none, one field each, several fields
ConstructionInputs ==
  {[k \in {} |-> Undefined],
   [episodes |-> Num(12)],
   [episodeDuration |-> Num(30)],
   [includeOpening |-> TRUE],
   [includeEnding |-> TRUE],
   [episodes |-> Num(12), episodeDuration |-> Num(30), includeOpening |-> TRUE]}

NextConstruction ==
  \/ AddChangeListener
  \/ RemoveChangeListener
  \/ GetCurrentResult
  \/ GetCurrentOptions
  \/ SetIncludeEnding
  \/ Recalculate

SpecConstruction == InitFrom(ConstructionInputs) /\ [][NextConstruction]_vars

\* ------------------------------------------------ default substitution
\* direct calls with an absent, a null and a given duration
DefaultCalls ==
  {<<"calculateWatchTime",
     [t |-> "object", episodes |-> e, episodeDuration |-> d,
      includeOpening |-> o, includeEnding |-> FALSE]>> :
     e \in {Num(0), Num(12)}, d \in {Undefined, Null, Num(22)}, o \in BOOLEAN}

NextDefaults ==
  \/ CalculateWatchTime
  \/ UpdateAnimeFrom(DefaultInputs)
  \/ AddChangeListener

SpecDefaults == InitCall(DefaultCalls) /\ [][NextDefaults]_vars

\* ----------------------------------- rounds with re-entrant listeners
AddLive ==
  \E id \in LiveFunctions :
    /\ Len(changeListeners) + (IF id = "w" THEN 1 ELSE 0) < MaxLive
    /\ Apply(Outcome(callLive([Session EXCEPT !.listeners = Append(@, id)],
                               id, currentResult, Undefined, 0).S,
                      callLive([Session EXCEPT !.listeners = Append(@, id)],
                               id, currentResult, Undefined, 0).calls,
                      <<>>, NoError),
             Op("addChangeListener", <<Fn(id)>>))

RemoveLive ==
  \E id \in LiveFunctions :
    Apply(removeChangeListener(Session, Fn(id)),
          Op("removeChangeListener", <<Fn(id)>>))

RecalculateLive ==
  /\ Len(changeListeners) <= MaxLive
  /\ Apply(recalculateLive(Session), Op("recalculate", <<>>))

UpdateAnimeLiveFrom(inputs) ==
  \E animeData \in inputs :
    /\ Len(changeListeners) <= MaxLive
    /\ Apply(recalculateLive(updateAnime(Session, animeData).S),
             Op("updateAnime", <<animeData>>))

NextLive ==
  \/ AddLive
  \/ RemoveLive
  \/ RecalculateLive
  \/ UpdateAnimeLiveFrom(WorkflowInputs)

SpecLive == Init /\ [][NextLive]_vars

\* --------------------------- rounds with a listener that loads a series
AddReentrant ==
  \E id \in {"f", "l"} :
    /\ Len(changeListeners) < MaxLive
    /\ Apply(Outcome(callLive([Session EXCEPT !.listeners = Append(@, id)],
                               id, currentResult, Undefined, 0).S,
                      callLive([Session EXCEPT !.listeners = Append(@, id)],
                               id, currentResult, Undefined, 0).calls,
                      <<>>, NoError),
             Op("addChangeListener", <<Fn(id)>>))

\* reset: the baseline record, no result, and the iteration handing null
ResetLive ==
  Apply(Outcome(forEach([Session EXCEPT !.options = Baseline, !.result = Null],
                        changeListeners, 1, Len(changeListeners),
                        FALSE, Undefined, <<>>).S,
                forEach([Session EXCEPT !.options = Baseline, !.result = Null],
                        changeListeners, 1, Len(changeListeners),
                        FALSE, Undefined, <<>>).calls,
                <<>>, NoError),
        Op("reset", <<>>))

NextReentrant ==
  \/ AddReentrant
  \/ RecalculateLive
  \/ UpdateAnimeLiveFrom(SnapshotInputs
                         \cup {[t |-> "object", episodes |-> Num(0),
                                 duration |-> Undefined]})
  \/ ResetLive

SpecReentrant == Init /\ [][NextReentrant]_vars

\* ------------------------------------------------- searches of the API
\* the API module and the component at the start of a step: nothing
\* dispatched yet
World ==
  [api |-> [searchTimeout |-> searchTimeout, timers |-> timers,
            inflight |-> inflight, promises |-> promises, requests |-> requests],
   ui |-> [inputValue |-> inputValue, currentSearchTerm |-> currentSearchTerm,
           isLoading |-> isLoading, searchError |-> searchError, events |-> <<>>]]

\* a step of the page left W behind: op is the last call of a handler or of
\* an exported function, t the timer or response that ran, if one did
Step(W, op, t) ==
  /\ searchTimeout' = W.api.searchTimeout
  /\ timers' = W.api.timers
  /\ inflight' = W.api.inflight
  /\ promises' = W.api.promises
  /\ requests' = W.api.requests
  /\ inputValue' = W.ui.inputValue
  /\ currentSearchTerm' = W.ui.currentSearchTerm
  /\ isLoading' = W.ui.isLoading
  /\ searchError' = W.ui.searchError
  /\ events' = W.ui.events
  /\ lastOp' = op
  /\ task' = t
  /\ UNCHANGED <<currentOptions, currentResult, changeListeners,
                 calls, invoked, thrown, returned, held>>

InitSearch ==
  LET S == createTimeCalculator([k \in {} |-> Undefined]) IN
  /\ currentOptions = S.options
  /\ currentResult = S.result
  /\ changeListeners = S.listeners
  /\ calls = <<>>
  /\ invoked = <<>>
  /\ thrown = NoError
  /\ lastOp = Op("import", <<>>)
  /\ returned = Undefined
  /\ Idle

SearchAnime ==
  \E searchTerm \in SearchTermInputs :
    /\ Len(promises) < MaxCalls
    /\ Step([World EXCEPT !.api = searchAnime(World.api, searchTerm)],
            Op("searchAnime", <<searchTerm>>), NoTask)

CancelPendingSearch ==
  Step([World EXCEPT !.api = cancelPendingSearch(World.api)],
       Op("cancelPendingSearch", <<>>), NoTask)

\* a scheduled timer fires: the callback calls makeGraphQLRequest
Timeout ==
  \E id \in timers :
    Step([World EXCEPT !.api.timers = @ \ {id},
                       !.api.inflight = @ \cup {id},
                       !.api.requests = Append(@, id)],
         lastOp, Op("timeout", <<id>>))

\* a request that is under way comes back: the rest of the timer callback,
\* and the performSearch that awaits the promise resumes
Response ==
  \E id \in inflight, outcome \in {"media", "noMedia", "429", "TypeError"} :
    Step(IF promises[id].waiter # Null
         THEN afterAwait([World EXCEPT !.api = settle(World.api, id, outcome)], id)
         ELSE [World EXCEPT !.api = settle(World.api, id, outcome)],
         lastOp, Op("response", <<id, outcome>>))

NextApi ==
  \/ SearchAnime
  \/ CancelPendingSearch
  \/ Timeout
  \/ Response

SpecApi == InitSearch /\ [][NextApi]_vars

\* a timer that is not cleared fires, a request that was issued completes
SpecApiFair == SpecApi /\ WF_vars(Timeout) /\ WF_vars(Response)

\* ------------------------------------------------ the search component
HandleInput ==
  \E value \in InputValues :
    /\ Len(promises) < MaxCalls
    /\ Step(handleInput(World, value), Op("handleInput", <<value>>), NoTask)

HandleKeydown ==
  \E key \in {"Enter", "Escape", "a"} :
    /\ Len(promises) < MaxCalls
    /\ Step(handleKeydown(World, key), Op("handleKeydown", <<key>>), NoTask)

HandleClear ==
  Step(handleClear(World), Op("handleClear", <<>>), NoTask)

HandleRetry ==
  /\ Len(promises) < MaxCalls
  /\ Step(handleRetry(World), Op("handleRetry", <<>>), NoTask)

NextSearch ==
  \/ HandleInput
  \/ HandleKeydown
  \/ HandleClear
  \/ HandleRetry
  \/ Timeout
  \/ Response

SpecSearch == InitSearch /\ [][NextSearch]_vars

\* ============================================================== properties
MutatingOps ==
  {"updateAnime", "setIncludeOpening", "setIncludeEnding",
   "setThemeInclusion", "recalculate", "reset"}

\* the operation that led to state op ran recalculate
IsRecompute(op) ==
  \/ op.op \in {"setIncludeOpening", "setIncludeEnding",
                "setThemeInclusion", "recalculate"}
  \/ op.op = "updateAnime" /\ IsObject(op.args[1])

\* the operation ran a notification round (a recomputation or a reset)
IsRound(op) == IsRecompute(op) \/ op.op = "reset"

\* the listeners invoked by the last operation, in the order of invocation
Invoked == [i \in 1..Len(calls) |-> calls[i].listener]

\* the stored options are rejected by the calculation function
Rejected(options) == ~validateCalculationInput(options).isValid

\* C1: every mutating operation (updateAnime, setIncludeOpening,
\* setIncludeEnding, setThemeInclusion, recalculate, reset) returns normally,
\* whatever its argument, also when calculateWatchTime rejects the options and
\* when a registered listener throws: no exception reaches the caller.
C1_MutatorsReturnNormally ==
  lastOp.op \in MutatingOps => thrown = NoError

\* a recomputation that failed in calculateWatchTime and notified a throwing
\* listener, and one that followed it
C1_Witness ==
  /\ IsRecompute(lastOp)
  /\ Len(invoked) = 1
  /\ Rejected(currentOptions)
  /\ Len(calls) = 2
  /\ calls[1].listener = "boom"

\* C2: in every notification round (recomputation or reset) the registered
\* listeners are invoked in registration order, each of them, also those
\* registered after a listener that throws.
C2_RoundInRegistrationOrder ==
  IsRound(lastOp) => Invoked = changeListeners

\* a round in which a throwing listener was followed by another listener
C2_Witness ==
  /\ IsRound(lastOp)
  /\ Len(calls) = 2
  /\ calls[1].listener = "boom"
  /\ calls[2].listener = "f"

\* C3: addChangeListener(callback) appends the callback to the end of the
\* listener list and invokes that callback, and no other, exactly once with
\* the current (result, options), leaving result and options as they were.
C3_AddChangeListenerNotifiesOnce ==
  [][\A id \in Functions :
       lastOp' = Op("addChangeListener", <<Fn(id)>>) =>
         /\ changeListeners' = Append(changeListeners, id)
         /\ calls' = <<[listener |-> id, result |-> currentResult,
                        options |-> currentOptions, error |-> Undefined]>>
         /\ currentResult' = currentResult
         /\ currentOptions' = currentOptions
         /\ thrown' = NoError]_vars

\* a second listener was registered while the session held a result
C3_Witness ==
  /\ lastOp.op = "addChangeListener"
  /\ lastOp.args[1].t = "function"
  /\ Len(changeListeners) = 2
  /\ changeListeners[1] # changeListeners[2]
  /\ Len(calls) = 1
  /\ calls[1].result # Null

\* the current result is non-null exactly when the episode count is > 0 and
\* the options pass validation, it is then the value of calculateWatchTime for
\* the current options, and calculateWatchTime ran only with episodes > 0
ResultMatchesOptions ==
  /\ currentResult # Null <=>
       (Gt(currentOptions.episodes, 0) /\ ~Rejected(currentOptions))
  /\ currentResult # Null =>
       currentResult = calculateWatchTime(currentOptions).value
  /\ \A i \in 1..Len(invoked) : Gt(invoked[i].episodes, 0)

\* C4 as stated: after any mutating operation returns, whatever its argument,
\* the current result matches the current options.
C4_AfterAnyMutatingOperation ==
  lastOp.op \in MutatingOps => ResultMatchesOptions

\* C4, amended: after any mutating operation that ran a recomputation or a
\* reset (all but updateAnime with a non-object argument, which does
\* nothing) the current result matches the current options.
C4_ResultMatchesOptionsAfterRound ==
  IsRound(lastOp) => ResultMatchesOptions

\* a recomputation left a result for a series with the opening theme included
C4_Witness ==
  /\ IsRecompute(lastOp)
  /\ currentResult # Null
  /\ currentOptions.episodes = Num(1)
  /\ currentOptions.includeOpening
  /\ currentResult.totalMinutes = Frac(255)
  /\ invoked = <<currentOptions>>

\* C5: when a recomputation runs with episodes > 0 and calculateWatchTime
\* fails, the current result becomes null and every registered listener is
\* invoked exactly once in that round, in order, with (null, options, message),
\* the message of the failure being the third argument.
C5_FailureNotifiesWithMessage ==
  (/\ IsRecompute(lastOp)
   /\ Gt(currentOptions.episodes, 0)
   /\ Rejected(currentOptions))
  => /\ currentResult = Null
     /\ calls = [i \in 1..Len(changeListeners) |->
                   [listener |-> changeListeners[i],
                    result |-> Null,
                    options |-> currentOptions,
                    error |-> validateCalculationInput(currentOptions).error]]

\* two listeners were told that the episode count exceeds the limit
C5_Witness ==
  /\ IsRecompute(lastOp)
  /\ Len(calls) = 2
  /\ calls[1].listener # calls[2].listener
  /\ \A i \in 1..2 :
       calls[i].error =
         Str("Episode count exceeds reasonable limit (10,000 episodes)")

\* an episode count that is 0, absent or negative
ZeroAbsentOrNegative(e) ==
  \/ e.t \in {"undefined", "null"}
  \/ e.t = "number" /\ e.v <= 0

\* C6: after updateAnime with an episode count that is 0, absent or negative
\* the current result is null and every listener got the plain (null, options)
\* notification without an error message; no notification of the session ever
\* carries the zero-episodes error.
C6_ZeroEpisodesIsSilent ==
  /\ (/\ lastOp.op = "updateAnime"
      /\ IsObject(lastOp.args[1])
      /\ ZeroAbsentOrNegative(lastOp.args[1].episodes))
     => /\ currentResult = Null
        /\ Invoked = changeListeners
        /\ \A i \in 1..Len(calls) :
             /\ calls[i].result = Null
             /\ calls[i].error = Undefined
  /\ \A i \in 1..Len(calls) :
       calls[i].error # Str("Cannot calculate time for anime with 0 episodes")

\* updateAnime with a zero count notified two listeners
C6_Witness ==
  /\ lastOp.op = "updateAnime"
  /\ IsObject(lastOp.args[1])
  /\ lastOp.args[1].episodes = Num(0)
  /\ Len(calls) = 2

\* episodes is a finite number >= 0 and episodeDuration a finite number > 0
Validated(options) ==
  /\ options.episodes.t = "number" /\ options.episodes.v >= 0
  /\ options.episodeDuration.t = "number" /\ options.episodeDuration.v > 0

\* the update carries a value the calculation function rejects
CarriesRejected(animeData) ==
  \/ Lt(animeData.episodes, 0)
  \/ Gt(animeData.episodes, 10000 * 10)
  \/ TypeofNumber(animeData.duration) /\ Le(animeData.duration, 0)
  \/ Gt(animeData.duration, 1440 * 10)

\* C7 as stated: the stored options are validated in every state the session
\* reaches, and an update carrying rejected values leaves the last-known-good
\* values or the baseline stored.
C7_StoredOptionsValidated ==
  [][/\ Validated(currentOptions')
     /\ (/\ lastOp'.op = "updateAnime"
         /\ IsObject(lastOp'.args[1])
         /\ CarriesRejected(lastOp'.args[1]))
        => currentOptions' \in {currentOptions, Baseline}]_vars

\* C7, amended: updateAnime stores its values without validating them, the
\* episode count as episodes || 0 and the duration as duration || 24, also
\* when calculateWatchTime rejects them; the current result is non-null only
\* while the stored options pass validation.
C7_UpdateStoresUnvalidated ==
  [][/\ (lastOp'.op = "updateAnime" /\ IsObject(lastOp'.args[1]))
        => /\ currentOptions'.episodes =
                (IF Truthy(lastOp'.args[1].episodes)
                 THEN lastOp'.args[1].episodes ELSE Num(0))
           /\ currentOptions'.episodeDuration =
                (IF Truthy(lastOp'.args[1].duration)
                 THEN lastOp'.args[1].duration ELSE Num(24))
     /\ currentResult' # Null => ~Rejected(currentOptions')]_vars

\* a rejected episode count and a rejected duration are stored, with no result
C7_Witness ==
  /\ lastOp.op = "updateAnime"
  /\ currentOptions.episodes = Num(10001)
  /\ currentOptions.episodeDuration = Num(-1)
  /\ currentResult = Null

\* C8: updateAnime with a non-object argument (absent, null, a number, a
\* string) changes neither the options, nor the result, nor the listener
\* list, and invokes no listener.
C8_UpdateAnimeNonObjectIsNoOp ==
  [][(lastOp'.op = "updateAnime" /\ ~IsObject(lastOp'.args[1]))
     => /\ currentOptions' = currentOptions
        /\ currentResult' = currentResult
        /\ changeListeners' = changeListeners
        /\ calls' = <<>>
        /\ thrown' = NoError]_vars

\* updateAnime was called with a number while a listener was registered and a
\* result was held
C8_Witness ==
  /\ lastOp = Op("updateAnime", <<Num(5)>>)
  /\ changeListeners # <<>>
  /\ currentResult # Null

\* C9: setThemeInclusion(a, b) leaves the session as setIncludeOpening(a)
\* followed by setIncludeEnding(b) does, with a single round: every listener
\* is invoked exactly once, with the notification that carries both new flags.
C9_SetThemeInclusionSingleRound ==
  [][lastOp'.op = "setThemeInclusion" =>
       LET a == lastOp'.args[1]
           b == lastOp'.args[2]
           o1 == setIncludeOpening(Session, a)
           o2 == setIncludeEnding(o1.S, b)
       IN /\ currentOptions' = o2.S.options
          /\ currentResult' = o2.S.result
          /\ changeListeners' = o2.S.listeners
          /\ calls' = o2.calls
          /\ Len(calls') = Len(changeListeners)
          /\ \A i \in 1..Len(calls') :
               /\ calls'[i].listener = changeListeners[i]
               /\ calls'[i].options.includeOpening = Truthy(a)
               /\ calls'[i].options.includeEnding = Truthy(b)]_vars

\* both flags were switched on at once for a loaded series with two listeners
C9_Witness ==
  /\ lastOp = Op("setThemeInclusion", <<Bool(TRUE), Str("no")>>)
  /\ Len(calls) = 2
  /\ currentResult # Null
  /\ currentResult.totalMinutes = Frac(250)

\* C10: reset sets the options to the baseline (0 episodes, 24 minutes, both
\* flags false), the result to null, invokes every registered listener once
\* with (null, baseline) and keeps the listener list, so the round of the
\* next operation reaches the same listeners.
C10_ResetToBaseline ==
  [][/\ lastOp'.op = "reset" =>
          LET base == [t |-> "object", episodes |-> Num(0),
                       episodeDuration |-> Num(24),
                       includeOpening |-> FALSE, includeEnding |-> FALSE]
          IN /\ currentOptions' = base
             /\ currentResult' = Null
             /\ changeListeners' = changeListeners
             /\ calls' = [i \in 1..Len(changeListeners) |->
                            [listener |-> changeListeners[i], result |-> Null,
                             options |-> base, error |-> Undefined]]
             /\ thrown' = NoError
     /\ (lastOp.op = "reset" /\ IsRound(lastOp'))
          => [i \in 1..Len(calls') |-> calls'[i].listener] = changeListeners]_vars

\* a reset notified two listeners, the first of which throws
C10_Witness ==
  /\ lastOp.op = "reset"
  /\ Len(calls) = 2
  /\ calls[1].listener = "boom"
  /\ calls[2].listener = "f"

\* C11: getCurrentOptions returns a snapshot.  A write to the returned record
\* changes neither the stored options nor the result nor the listener list; a
\* later getCurrentOptions returns the stored options, a recomputation after
\* the write computes from the stored options; both read accessors leave the
\* session as it is and invoke no listener.
C11_AccessorsAreReadOnly ==
  [][/\ lastOp'.op \in {"getCurrentResult", "getCurrentOptions", "write"}
          => /\ currentOptions' = currentOptions
             /\ currentResult' = currentResult
             /\ changeListeners' = changeListeners
             /\ calls' = <<>>
     /\ lastOp'.op = "getCurrentOptions"
          => /\ returned'.value = currentOptions
             /\ lastOp.op = "write" => returned'.value # returned.value
     /\ lastOp'.op = "getCurrentResult" => returned' = currentResult
     /\ (lastOp.op = "write" /\ lastOp'.op = "recalculate")
          => /\ currentOptions' = currentOptions
             /\ ResultMatchesOptions']_vars

\* the caller holds a record it has written to, which differs from the
\* options of the session, the session holding a result
C11_Witness ==
  /\ lastOp.op = "write"
  /\ returned.value.episodes = Num(1)
  /\ currentOptions.episodes = Num(12)
  /\ currentResult # Null
  /\ currentResult.baseMinutes = Num(264)

\* list without its first entry equal to id
WithoutFirst(list, id) ==
  LET Hits == {i \in 1..Len(list) : list[i] = id} IN
  IF Hits = {} THEN list
  ELSE LET first == CHOOSE i \in Hits : \A j \in Hits : i <= j IN
       [j \in 1..(Len(list) - 1) |-> IF j < first THEN list[j] ELSE list[j + 1]]

\* C12: removeChangeListener(callback) removes the first matching entry of the
\* listener list and keeps the others in their order; with a callback that is
\* not registered the list is unchanged; it touches nothing else.  No
\* operation invokes a callback that is not on the list, so a callback
\* registered once and removed is not invoked again.
C12_RemoveFirstMatching ==
  [][/\ lastOp'.op = "removeChangeListener"
          => /\ changeListeners' =
                  (IF lastOp'.args[1].t = "function"
                   THEN WithoutFirst(changeListeners, lastOp'.args[1].id)
                   ELSE changeListeners)
             /\ currentOptions' = currentOptions
             /\ currentResult' = currentResult
             /\ calls' = <<>>
             /\ thrown' = NoError
     /\ \A i \in 1..Len(calls') :
          \E j \in 1..Len(changeListeners') :
            changeListeners'[j] = calls'[i].listener]_vars

\* the first of two registrations of "f" around "boom" was removed
C12_Witness ==
  /\ lastOp = Op("removeChangeListener", <<Fn("f")>>)
  /\ changeListeners = <<"boom", "f">>

\* C13: the recalculate method changes no option; called twice in a row it
\* notifies every listener both times with equal results and leaves the
\* current result as the first call left it.
C13_RecalculateTwice ==
  [][lastOp'.op = "recalculate"
       => /\ currentOptions' = currentOptions
          /\ changeListeners' = changeListeners
          /\ Len(calls') = Len(changeListeners)
          /\ lastOp.op = "recalculate"
               => /\ Len(calls') = Len(calls)
                  /\ \A i \in 1..Len(calls) :
                       /\ calls'[i].listener = calls[i].listener
                       /\ calls'[i].result = calls[i].result
                  /\ currentResult' = currentResult]_vars

\* a manual recomputation notified two listeners with the result it left
C13_Witness ==
  /\ lastOp.op = "recalculate"
  /\ Len(calls) = 2
  /\ currentResult # Null
  /\ calls[1].result = currentResult
  /\ calls[2].result = currentResult

\* the formatted time of 26 episodes of 24 minutes
WorkflowTime(includeOpening, includeEnding) ==
  IF includeOpening /\ includeEnding THEN "11 hours 42 minutes"
  ELSE IF includeOpening \/ includeEnding THEN "11 hours 3 minutes"
  ELSE "10 hours 24 minutes"

\* C14: each updateAnime (with an object), setIncludeOpening,
\* setIncludeEnding, setThemeInclusion and recalculate invokes every registered
\* listener exactly once before it returns, with the result computed from the
\* options as the call leaves them; for 26 episodes of 24 minutes the
\* notifications carry '10 hours 24 minutes' without themes, '11 hours 3
\* minutes' with one theme and '11 hours 42 minutes' with both.
C14_OneNotificationPerCall ==
  IsRecompute(lastOp)
  => /\ Len(calls) = Len(changeListeners)
     /\ \A i \in 1..Len(calls) :
          /\ calls[i].listener = changeListeners[i]
          /\ calls[i].result = currentResult
          /\ calls[i].options = currentOptions
     /\ ResultMatchesOptions
     /\ (currentOptions.episodes = Num(26) /\ currentOptions.episodeDuration = Num(24))
          => /\ currentResult # Null
             /\ currentResult.formattedTime =
                  WorkflowTime(currentOptions.includeOpening,
                               currentOptions.includeEnding)

\* the last step of the workflow: the opening is switched off again
C14_Witness ==
  /\ lastOp = Op("setIncludeOpening", <<Bool(FALSE)>>)
  /\ currentOptions.episodes = Num(26)
  /\ currentOptions.includeEnding
  /\ Len(calls) = 2
  /\ calls[2].result.formattedTime = "11 hours 3 minutes"
  /\ calls[2].result.totalMinutes = Num(663)

\* the argument of the last direct call
Argument == lastOp.args[1]

\* a whole number of episodes from 1 to 10,000
ValidEpisodes(e) ==
  e.t = "number" /\ e.v % 10 = 0 /\ 10 <= e.v /\ e.v <= 10000 * 10

\* a duration above 0 and up to 1,440 minutes
ValidDuration(d) == d.t = "number" /\ 0 < d.v /\ d.v <= 1440 * 10

\* C15: for every valid input (1 <= episodes <= 10,000, 0 < episodeDuration
\* <= 1,440, any flags) calculateWatchTime returns baseMinutes = episodes *
\* episodeDuration, openingMinutes and endingMinutes = episodes * 1.5 for an
\* included theme and 0 otherwise, totalMinutes = their sum, formattedTime =
\* formatTime(totalMinutes) and a breakdown with the episodes, the duration,
\* both flags and the formatted theme times (null for a theme left out).
C15_CalculationOfValidInput ==
  (/\ lastOp.op = "calculateWatchTime"
   /\ IsObject(Argument)
   /\ ValidEpisodes(Argument.episodes)
   /\ ValidDuration(Argument.episodeDuration))
  => LET n == Argument.episodes.v \div 10
         base == n * Argument.episodeDuration.v
         opening == IF Argument.includeOpening THEN n * 15 ELSE 0
         ending == IF Argument.includeEnding THEN n * 15 ELSE 0
     IN /\ thrown = NoError
        /\ returned.baseMinutes = Frac(base)
        /\ returned.openingMinutes = Frac(opening)
        /\ returned.endingMinutes = Frac(ending)
        /\ returned.totalMinutes = Frac(base + opening + ending)
        /\ returned.formattedTime = formatTime(Frac(base + opening + ending))
        /\ returned.breakdown =
             [episodes |-> Argument.episodes,
              episodeDuration |-> Argument.episodeDuration,
              baseTime |-> Str(formatTime(Frac(base))),
              openingTime |-> IF Argument.includeOpening
                              THEN Str(formatTime(Frac(opening))) ELSE Null,
              endingTime |-> IF Argument.includeEnding
                             THEN Str(formatTime(Frac(ending))) ELSE Null,
              includeOpening |-> Argument.includeOpening,
              includeEnding |-> Argument.includeEnding]

\* 3 episodes of 23.5 minutes with the opening: 70.5 + 4.5 minutes
C15_Witness ==
  /\ lastOp.op = "calculateWatchTime"
  /\ IsObject(Argument)
  /\ Argument.episodes = Num(3)
  /\ Argument.episodeDuration = Frac(235)
  /\ Argument.includeOpening /\ ~Argument.includeEnding
  /\ thrown = NoError
  /\ returned.totalMinutes = Num(75)
  /\ returned.formattedTime = "1 hour 15 minutes"
  /\ returned.breakdown.openingTime = Str("5 minutes")
  /\ returned.breakdown.endingTime = Null

\* a number that is at least n: NaN is not, Infinity is
AtLeast(x, n) == (x.t = "number" /\ x.v >= n * 10) \/ x.t = "Infinity"

\* a number that is above n
Above(x, n) == (x.t = "number" /\ x.v > n * 10) \/ x.t = "Infinity"

\* the first check of the validation sequence that the input fails, "none" if
\* it passes all six
FirstFailingCheck(options) ==
  IF ~IsObject(options) THEN "InvalidInput"
  ELSE IF ~AtLeast(options.episodes, 0) THEN "InvalidEpisodeCount"
  ELSE IF options.episodes = Num(0) THEN "ZeroEpisodes"
  ELSE IF /\ options.episodeDuration.t \notin {"undefined", "null"}
          /\ ~Above(options.episodeDuration, 0) THEN "InvalidEpisodeDuration"
  ELSE IF Above(options.episodes, 10000) THEN "EpisodeCountTooLarge"
  ELSE IF Above(options.episodeDuration, 1440) THEN "EpisodeDurationTooLarge"
  ELSE "none"

\* the message of each error condition
ErrorMessage(check) ==
  CASE check = "InvalidInput" -> "Invalid calculation options provided"
    [] check = "InvalidEpisodeCount" -> "Episodes must be a non-negative number"
    [] check = "ZeroEpisodes" -> "Cannot calculate time for anime with 0 episodes"
    [] check = "InvalidEpisodeDuration" -> "Episode duration must be a positive number"
    [] check = "EpisodeCountTooLarge" ->
         "Episode count exceeds reasonable limit (10,000 episodes)"
    [] check = "EpisodeDurationTooLarge" ->
         "Episode duration exceeds reasonable limit (24 hours)"

\* C16: calculateWatchTime fails with the error of the first failing check in
\* the order InvalidInput, InvalidEpisodeCount, ZeroEpisodes,
\* InvalidEpisodeDuration, EpisodeCountTooLarge, EpisodeDurationTooLarge, and
\* returns a result exactly when no check fails.
C16_FirstFailingCheck ==
  lastOp.op = "calculateWatchTime"
  => IF FirstFailingCheck(Argument) = "none"
     THEN thrown = NoError /\ IsObject(returned)
     ELSE thrown = Error(Str(ErrorMessage(FirstFailingCheck(Argument))))

\* a finite number that is not negative
FiniteNonNegative(x) == x.t = "number" /\ x.v >= 0

\* C17: formatTime never raises, and every input that is not a finite number
\* (non-numeric, null, undefined, NaN, infinite) or is negative yields
\* '0 minutes'.
C17_FormatTimeTotal ==
  lastOp.op = "formatTime"
  => /\ thrown = NoError
     /\ ~FiniteNonNegative(Argument) => returned = Str("0 minutes")

\* the parts of a formatted time
MinutesPart(m) == IF m = 1 THEN "1 minute" ELSE ToString(m) \o " minutes"
HoursPart(h) == IF h = 1 THEN "1 hour" ELSE ToString(h) \o " hours"

\* the formatted time of a whole number of minutes
Formatted(n) ==
  IF n < 60 THEN MinutesPart(n)
  ELSE HoursPart(n \div 60)
       \o (IF n % 60 > 0 THEN " " \o MinutesPart(n % 60) ELSE "")

\* C18: for every integer n >= 0, formatTime(n) is '{n} minute' (n = 1) or
\* '{n} minutes' when n < 60, and otherwise the hours part for floor(n / 60)
\* ('1 hour' or '{h} hours') followed, exactly when n mod 60 > 0, by a space
\* and the minutes part for n mod 60.
C18_FormatOfWholeMinutes ==
  (/\ lastOp.op = "formatTime"
   /\ FiniteNonNegative(Argument)
   /\ Argument.v % 10 = 0)
  => returned = Str(Formatted(Argument.v \div 10))

\* 61 minutes: both parts in the singular
C18_Witness ==
  /\ lastOp = Op("formatTime", <<Num(61)>>)
  /\ returned = Str("1 hour 1 minute")

\* the nearest whole number of k tenths, halves going up
RoundHalfUp(k) == IF k % 10 >= 5 THEN k \div 10 + 1 ELSE k \div 10

\* C19: formatTime rounds to the nearest whole minute before formatting,
\* halves rounding up: formatTime(x) = formatTime(round(x)) for every x >= 0;
\* a total of k + 0.5 minutes, as calculateWatchTime produces it, is rendered
\* as k + 1 minutes.
C19_RoundsHalfUp ==
  /\ (lastOp.op = "formatTime" /\ FiniteNonNegative(Argument))
     => /\ returned = Str(formatTime(Num(RoundHalfUp(Argument.v))))
        /\ returned = Str(Formatted(RoundHalfUp(Argument.v)))
  /\ (/\ lastOp.op = "calculateWatchTime"
      /\ thrown = NoError
      /\ returned.totalMinutes.t = "number"
      /\ returned.totalMinutes.v % 10 = 5)
     => returned.formattedTime =
          Formatted(returned.totalMinutes.v \div 10 + 1)

\* 59.5 minutes are rendered as one hour
C19_Witness ==
  /\ lastOp = Op("formatTime", <<Frac(595)>>)
  /\ returned = Str("1 hour")

\* the values JavaScript treats as false
Falsy(x) ==
  \/ x.t \in {"undefined", "null", "NaN"}
  \/ x = Num(0)
  \/ x = Str("")
  \/ x = Bool(FALSE)

\* C20: calculateWatchTime with an absent or null episodeDuration computes
\* with 24 and reports 24 as the duration of the breakdown; updateAnime
\* stores 0 for an absent or falsy episode count and 24 for an absent or falsy
\* duration (missing, null, 0), and the given values otherwise.
C20_DefaultSubstitution ==
  /\ (/\ lastOp.op = "calculateWatchTime"
      /\ Argument.episodeDuration.t \in {"undefined", "null"}
      /\ ValidEpisodes(Argument.episodes))
     => /\ thrown = NoError
        /\ returned.baseMinutes = Frac((Argument.episodes.v \div 10) * 240)
        /\ returned.breakdown.episodeDuration = Num(24)
  /\ (lastOp.op = "updateAnime" /\ IsObject(Argument))
     => /\ currentOptions.episodes =
             (IF Falsy(Argument.episodes) THEN Num(0) ELSE Argument.episodes)
        /\ currentOptions.episodeDuration =
             (IF Falsy(Argument.duration) THEN Num(24) ELSE Argument.duration)

\* 12 episodes with a null duration are stored and computed with 24 minutes
C20_Witness ==
  /\ lastOp.op = "updateAnime"
  /\ IsObject(Argument)
  /\ Argument.episodes = Num(12)
  /\ Argument.duration = Null
  /\ currentOptions.episodeDuration = Num(24)
  /\ currentResult # Null
  /\ currentResult.totalMinutes = Num(288)

\* a number above 0
PositiveNumber(x) == (x.t = "number" /\ x.v > 0) \/ x.t = "Infinity"

\* C21: canCalculateTime of the time calculation module is true exactly when
\* its argument is an object whose episodes field is a number above 0; it is
\* false for null, undefined, a record without episodes, episodes 0, negative
\* episodes and episodes that are not a number.
C21_CanCalculateTime ==
  lastOp.op = "canCalculateTime"
  => returned = Bool(/\ Argument.t = "object"
                     /\ PositiveNumber(Argument.episodes))

\* a record with 12 episodes can be calculated
C21_Witness ==
  /\ lastOp.op = "canCalculateTime"
  /\ Argument.t = "object"
  /\ Argument.episodes = Num(12)
  /\ returned = Bool(TRUE)

\* C22: the canCalculateTime of the time calculation module and that of the
\* API module agree: whichever of them was called, the value it returned is
\* the value of both on that record.
C22_PredicatesAgree ==
  lastOp.op \in {"canCalculateTime", "apiCanCalculateTime"}
  => /\ returned = Bool(canCalculateTime(Argument))
     /\ returned = Bool(apiCanCalculateTime(Argument))

\* the options a session is constructed with
InitialOption(initialOptions, k) ==
  IF k \in DOMAIN initialOptions THEN initialOptions[k]
  ELSE CASE k = "t" -> "object"
         [] k = "episodes" -> Num(0)
         [] k = "episodeDuration" -> Num(24)
         [] k = "includeOpening" -> FALSE
         [] k = "includeEnding" -> FALSE

\* C23: a new session has the baseline options (0 episodes, 24 minutes, both
\* flags false) with each field overridden by the initial options when
\* supplied, no listeners and a null result; construction runs no
\* calculation, and no operation other than a mutating one gives the session
\* a result, so the result stays null until the first mutating operation,
\* also when the initial episode count is above 0.
C23_NewSession ==
  /\ [](lastOp.op = "createTimeCalculator"
        => /\ \A k \in DOMAIN currentOptions :
                currentOptions[k] = InitialOption(lastOp.args[1], k)
           /\ changeListeners = <<>>
           /\ currentResult = Null
           /\ calls = <<>>
           /\ invoked = <<>>)
  /\ [][(currentResult = Null /\ lastOp'.op \notin MutatingOps)
          => currentResult' = Null]_vars

\* a session constructed with 12 episodes has no result when its first
\* listener is registered
C23_Witness ==
  /\ lastOp.op = "addChangeListener"
  /\ currentOptions.episodes = Num(12)
  /\ currentOptions.episodeDuration = Num(30)
  /\ Len(changeListeners) = 1
  /\ Len(calls) = 1
  /\ calls[1].result = Null
  /\ currentResult = Null

\* C26: with both theme options on the total is episodes x episode duration,
\* with nothing added for the themes; each theme option that is off takes 1
\* minute 30 seconds per episode off the total.
C26_ThemesAreSubtracted ==
  (/\ lastOp.op = "calculateWatchTime"
   /\ IsObject(Argument)
   /\ ValidEpisodes(Argument.episodes)
   /\ ValidDuration(Argument.episodeDuration))
  => LET n == Argument.episodes.v \div 10
         full == n * Argument.episodeDuration.v
         openingOff == IF Argument.includeOpening THEN 0 ELSE n * 15
         endingOff == IF Argument.includeEnding THEN 0 ELSE n * 15
     IN /\ thrown = NoError
        /\ returned.totalMinutes = Frac(full - openingOff - endingOff)

\* C27: setIncludeOpening(v) sets includeOpening to the boolean coercion of v
\* and leaves episodes, episodeDuration and includeEnding as they are,
\* setIncludeEnding likewise; updateAnime replaces episodes and
\* episodeDuration and leaves both flags as they are; none of them changes
\* the listener list.
C27_OwnFieldsOnly ==
  [][/\ lastOp'.op = "setIncludeOpening"
          => /\ currentOptions' =
                  [currentOptions EXCEPT !.includeOpening = ~Falsy(lastOp'.args[1])]
             /\ changeListeners' = changeListeners
     /\ lastOp'.op = "setIncludeEnding"
          => /\ currentOptions' =
                  [currentOptions EXCEPT !.includeEnding = ~Falsy(lastOp'.args[1])]
             /\ changeListeners' = changeListeners
     /\ lastOp'.op = "updateAnime"
          => /\ currentOptions'.includeOpening = currentOptions.includeOpening
             /\ currentOptions'.includeEnding = currentOptions.includeEnding
             /\ changeListeners' = changeListeners
             /\ IsObject(lastOp'.args[1])
                  => currentOptions' =
                       [currentOptions EXCEPT
                          !.episodes = IF Falsy(lastOp'.args[1].episodes)
                                       THEN Num(0)
                                       ELSE lastOp'.args[1].episodes,
                          !.episodeDuration = IF Falsy(lastOp'.args[1].duration)
                                              THEN Num(24)
                                              ELSE lastOp'.args[1].duration]]_vars

\* another series was loaded and both flags chosen before are still set
C27_Witness ==
  /\ lastOp.op = "updateAnime"
  /\ IsObject(lastOp.args[1])
  /\ lastOp.args[1].episodes = Num(1)
  /\ currentOptions.episodes = Num(1)
  /\ currentOptions.includeOpening
  /\ currentOptions.includeEnding
  /\ currentResult # Null

\* C24: every promise returned by searchAnime is eventually resolved with an
\* ApiResponse, whatever searchAnime and cancelPendingSearch calls follow it,
\* given that a timer that stays scheduled fires and a request that was
\* issued completes.
C24_EveryPromiseSettles ==
  \A id \in 1..MaxCalls :
    (Len(promises) >= id)
      ~> (/\ Len(promises) >= id
          /\ promises[id].value # Unsettled
          /\ promises[id].value.t = "object"
          /\ DOMAIN promises[id].value = {"t", "data", "error"})

\* the user cleared the search box: the clear button or the Escape key
Cleared(op) ==
  op.op = "handleClear" \/ op = Op("handleKeydown", <<"Escape">>)

\* C25: a clear empties the search box, hides the loading and the error
\* display and dispatches the empty result; as long as no handler starts a
\* new search, the display stays like this and no animeSearchResult with
\* data or an error is dispatched, also when a request was under way at the
\* time of the clear.
C25_ClearedStaysCleared ==
  [][/\ (task' = NoTask /\ Cleared(lastOp'))
          => /\ inputValue' = Text(<<>>)
             /\ ~isLoading'
             /\ searchError' = Null
             /\ Len(events') = 1
             /\ events'[1].data = Null
             /\ events'[1].error = Null
     /\ (task' # NoTask /\ Cleared(lastOp))
          => /\ ~isLoading'
             /\ searchError' = Null
             /\ \A i \in 1..Len(events') :
                  events'[i].data = Null /\ events'[i].error = Null]_vars

\* C28: when the request of a search completes, performSearch dispatches an
\* animeSearchResult for it only if currentSearchTerm still equals the
\* trimmed term the search was started with, and then exactly one, carrying
\* that term; otherwise it dispatches nothing and leaves the loading and the
\* error state as they are.
C28_StaleResultDropped ==
  [][task'.op = "response"
       => IF currentSearchTerm = promises[task'.args[1]].term
          THEN /\ Len(events') = 1
               /\ events'[1].searchTerm = promises[task'.args[1]].term
               /\ events'[1].data = promises'[task'.args[1]].value.data
               /\ events'[1].error = promises'[task'.args[1]].value.error
               /\ ~isLoading'
          ELSE /\ events' = <<>>
               /\ isLoading' = isLoading
               /\ searchError' = searchError]_vars

\* the search for "ab" came back with an anime after the term had become
\* "cd": nothing was dispatched and the component still shows loading
C28_Witness ==
  /\ task.op = "response"
  /\ promises[task.args[1]].term = Text(<<"a", "b">>)
  /\ promises[task.args[1]].value.data # Null
  /\ currentSearchTerm = Text(<<"c", "d">>)
  /\ events = <<>>
  /\ isLoading

\* C29: every searchAnime call cancels the timer the previous call
\* scheduled, also when it rejects its term, so at most one timer is
\* scheduled at any time and a timer that fires is that of the latest call:
\* of several calls made before a timer fires only the last one, when it is
\* valid, issues a request; cancelPendingSearch cancels the scheduled timer,
\* and no request is issued but by a timer.
C29_OneTimer ==
  [][/\ (task' = NoTask /\ lastOp'.op = "searchAnime")
          => /\ timers' \cap timers = {}
             /\ timers' \subseteq {Len(promises')}
     /\ (task' = NoTask /\ lastOp'.op = "cancelPendingSearch")
          => timers' = {}
     /\ task'.op = "timeout"
          => /\ task'.args[1] = Len(promises)
             /\ requests' = Append(requests, Len(promises))
             /\ timers' = {}
     /\ task'.op # "timeout" => requests' = requests
     /\ Cardinality(timers') <= 1]_vars

\* a call with a term of one character cancelled the timer of the call
\* before it: that promise is unsettled, and no timer is left to issue a
\* request
C29_Witness ==
  /\ lastOp = Op("searchAnime", <<Text(<<"a">>)>>)
  /\ task = NoTask
  /\ Len(promises) = 2
  /\ promises[1].value = Unsettled
  /\ promises[2].value.error = Str("Please enter at least 2 characters to search.")
  /\ timers = {}
  /\ inflight = {}
  /\ requests = <<>>

\* the invocations the iteration of the last round made
Iterated == SelectSeq(calls, LAMBDA c : c.by = "forEach")

\* the listener list when the last round began
AtStart == IF Iterated = <<>> THEN changeListeners ELSE Iterated[1].before

\* the callback of invocation c unregistered itself or a listener registered
\* before it: the list lost an entry at or before the index of the callback
UnregisteredAtOrBefore(c) ==
  /\ c.by = "forEach"
  /\ Len(c.after) < Len(c.before)
  /\ \E p \in 1..c.index :
       p > Len(c.after) \/ c.after[p] # c.before[p]

\* the callback of invocation c registered a listener
Registered(c) == Len(c.after) > Len(c.before)

\* no listener is registered twice at any time of the last round
RegisteredOnce ==
  \A i \in 1..Len(calls) :
    /\ \A a, b \in 1..Len(calls[i].before) :
         a # b => calls[i].before[a] # calls[i].before[b]
    /\ \A a, b \in 1..Len(calls[i].after) :
         a # b => calls[i].after[a] # calls[i].after[b]

C30_WitnessRegistered ==
  /\ IsRecompute(lastOp)
  /\ Len(calls) = 3
  /\ calls[1].before = <<"f", "w">>
  /\ calls[2].listener = "w"
  /\ calls[3].listener = "g"
  /\ calls[3].by = "addChangeListener"
  /\ changeListeners = <<"f", "w", "g">>

\* C35: addChangeListener returns normally whatever it is given; with an
\* argument that is not a function it leaves the listener list, the options
\* and the result as they are and invokes nothing; a callback that throws in
\* the invocation addChangeListener makes of it is on the list afterwards,
\* and every round invokes each throwing callback that is on the list.
C35_AddChangeListenerNeverRaises ==
  [][/\ lastOp'.op = "addChangeListener"
          => /\ thrown' = NoError
             /\ lastOp'.args[1].t # "function"
                  => /\ changeListeners' = changeListeners
                     /\ currentOptions' = currentOptions
                     /\ currentResult' = currentResult
                     /\ calls' = <<>>
                     /\ invoked' = <<>>
             /\ (lastOp'.args[1].t = "function" /\ Throws(lastOp'.args[1].id))
                  => /\ changeListeners' = Append(changeListeners, lastOp'.args[1].id)
                     /\ Len(calls') = 1
                     /\ calls'[1].listener = lastOp'.args[1].id
     /\ IsRound(lastOp')
          => \A j \in 1..Len(changeListeners') :
               Throws(changeListeners'[j])
               => /\ j <= Len(calls')
                  /\ calls'[j].listener = changeListeners'[j]]_vars

\* a round invoked "boom", which threw when it was registered as the only
\* listener and throws again
C35_Witness ==
  /\ IsRound(lastOp)
  /\ changeListeners = <<"boom">>
  /\ Len(calls) = 1
  /\ calls[1].listener = "boom"
  /\ thrown = NoError

\* the number of entries of list that are id
Registrations(list, id) == Cardinality({i \in 1..Len(list) : list[i] = id})

\* the number of invocations of id among the listener calls cs
Invocations(cs, id) == Cardinality({i \in 1..Len(cs) : cs[i].listener = id})

\* C34: addChangeListener appends a callback also when it is on the list
\* already; every round invokes a callback as many times as it is on the
\* list; removeChangeListener(callback) takes one registration of the
\* callback off the list, the earliest, and leaves the others where they
\* are, so a callback registered k times is still invoked after fewer than
\* k removals.
C34_OneRegistrationPerCall ==
  [][/\ (lastOp'.op = "addChangeListener" /\ lastOp'.args[1].t = "function")
          => Registrations(changeListeners', lastOp'.args[1].id)
               = Registrations(changeListeners, lastOp'.args[1].id) + 1
     /\ IsRound(lastOp')
          => \A id \in Functions :
               Invocations(calls', id) = Registrations(changeListeners', id)
     /\ (lastOp'.op = "removeChangeListener" /\ lastOp'.args[1].t = "function")
          => /\ \A id \in Functions :
                  Registrations(changeListeners', id)
                    = IF id = lastOp'.args[1].id
                         /\ Registrations(changeListeners, id) > 0
                      THEN Registrations(changeListeners, id) - 1
                      ELSE Registrations(changeListeners, id)
             /\ \A i \in 1..Len(changeListeners') :
                  changeListeners'[i] =
                    IF \E j \in 1..i : changeListeners[j] = lastOp'.args[1].id
                    THEN changeListeners[i + 1]
                    ELSE changeListeners[i]]_vars

\* "f" is on the list twice: the round invoked it twice
C34_Witness ==
  /\ IsRound(lastOp)
  /\ changeListeners = <<"f", "f">>
  /\ Invocations(calls, "f") = 2

\* the record is one that validateCalculationInput rejects for its size
OverLimit(record) ==
  \/ Above(record.episodes, 10000)
  \/ record.duration.t = "number" /\ record.duration.v < 0
  \/ Above(record.duration, 1440)

\* the last update notified every listener of a failure
NotifiedOfError ==
  /\ Len(calls) = Len(changeListeners)
  /\ \A i \in 1..Len(calls) :
       calls[i].result = Null /\ calls[i].error.t = "string"

\* 1 <= episodes <= 10,000, and a duration that is absent, falsy or in
\* (0, 1,440]
WithinLimits(record) ==
  /\ AtLeast(record.episodes, 1)
  /\ ~Above(record.episodes, 10000)
  /\ Falsy(record.duration) \/ ValidDuration(record.duration)

\* C33 as stated: for a record with episodes > 10,000 or a duration that is
\* negative or above 1,440, canCalculateTime returns true while updateAnime
\* leaves no result and notifies the listeners with an error message; for a
\* record within the limits canCalculateTime is true and updateAnime leaves a
\* result.
C33_TrueWithoutResult ==
  /\ (lastOp.op = "updateAnime" /\ OverLimit(Argument))
       => currentResult = Null /\ NotifiedOfError
  /\ (lastOp.op = "canCalculateTime" /\ OverLimit(Argument))
       => returned = Bool(TRUE) /\ currentResult = Null
  /\ (lastOp.op = "canCalculateTime" /\ WithinLimits(Argument))
       => returned = Bool(TRUE) /\ currentResult # Null

\* C33, amended: for a record with a positive episode count that has
\* episodes > 10,000 or a duration that is negative or above 1,440,
\* canCalculateTime returns true while updateAnime leaves no result and
\* notifies every listener with a null result and an error message; for a
\* record within the limits canCalculateTime is true and updateAnime leaves a
\* result.
C33_TrueWithoutResultWhenPositive ==
  /\ (/\ lastOp.op = "updateAnime"
      /\ OverLimit(Argument)
      /\ PositiveNumber(Argument.episodes))
       => currentResult = Null /\ NotifiedOfError
  /\ (/\ lastOp.op = "canCalculateTime"
      /\ OverLimit(Argument)
      /\ PositiveNumber(Argument.episodes))
       => returned = Bool(TRUE) /\ currentResult = Null
  /\ (lastOp.op = "canCalculateTime" /\ WithinLimits(Argument))
       => returned = Bool(TRUE) /\ currentResult # Null

\* canCalculateTime was true of a record of 10,001 episodes after the update
\* with it had told two listeners of the failure
C33_Witness ==
  /\ lastOp.op = "canCalculateTime"
  /\ Argument.episodes = Num(10001)
  /\ returned = Bool(TRUE)
  /\ currentResult = Null
  /\ Len(changeListeners) = 2

\* C32: the record a listener is handed is the session's own: a field the
\* listener writes on it changes the session's options at once, with no
\* operation called and no recomputation; getCurrentOptions returns the
\* written value and the next recalculate computes from it.  reset assigns
\* a new record: after it a write to the record handed out earlier changes
\* that record only.
C32_ListenersHoldTheRecord ==
  [][/\ (lastOp'.op = "addChangeListener" /\ held = Undefined)
          => held' = Reference(TRUE, currentOptions')
     /\ (lastOp'.op = "reset" /\ held # Undefined)
          => /\ ~held'.live
             /\ currentOptions' = Baseline
     /\ (lastOp'.op = "observerWrite" /\ held.live)
          => /\ currentOptions' =
                  [currentOptions EXCEPT ![lastOp'.args[1]] = lastOp'.args[2]]
             /\ currentResult' = currentResult
             /\ calls' = <<>>
     /\ (lastOp'.op = "observerWrite" /\ ~held.live)
          => /\ currentOptions' = currentOptions
             /\ held'.value[lastOp'.args[1]] = lastOp'.args[2]
     /\ (lastOp.op = "observerWrite" /\ held.live
           /\ lastOp'.op = "getCurrentOptions")
          => returned'.value[lastOp.args[1]] = lastOp.args[2]
     /\ (lastOp.op = "observerWrite" /\ held.live /\ lastOp'.op = "recalculate")
          => /\ currentOptions'[lastOp.args[1]] = lastOp.args[2]
             /\ invoked' = IF Gt(currentOptions.episodes, 0)
                           THEN <<currentOptions>> ELSE <<>>
             /\ currentResult' =
                  IF computeResult(currentOptions).thrown = NoError
                  THEN computeResult(currentOptions).value ELSE Null]_vars

\* recalculate computed a result for the one episode the listener had
\* written into the record of a session without a series
C32_Witness ==
  /\ lastOp.op = "recalculate"
  /\ held # Undefined
  /\ held.live
  /\ currentOptions.episodes = Num(1)
  /\ currentResult # Null
  /\ currentResult.breakdown.episodes = Num(1)

\* the listener wrote to the record it was handed before a reset: the
\* session's options are those reset installed
C32_WitnessAfterReset ==
  /\ lastOp = Op("observerWrite", <<"episodes", Num(1)>>)
  /\ ~held.live
  /\ held.value.episodes = Num(1)
  /\ currentOptions = Baseline

\* the last notification listener id received in the last operation
LastNotification(id) ==
  calls[CHOOSE i \in 1..Len(calls) :
          /\ calls[i].listener = id
          /\ \A j \in (i + 1)..Len(calls) : calls[j].listener # id]

\* C31: when an operation that notifies the listeners has returned, the last
\* notification every registered listener received in it carries the result
\* the session holds, also when a listener loaded a series from inside the
\* round.
C31_LastNotificationIsCurrent ==
  IsRound(lastOp)
  => \A k \in 1..Len(changeListeners) :
       (\E i \in 1..Len(calls) : calls[i].listener = changeListeners[k])
       => LastNotification(changeListeners[k]).result = currentResult

====
